---- MODULE Spec2Model ----
(***************************************************************************)
(* A model of the client-side error-handling core: the retry policy        *)
(* (retryWithBackoff), the global error register (useErrorStore), the      *)
(* error manager (ErrorManager.handle) with the typed error classes, and   *)
(* the error boundary (ErrorBoundary).                                     *)
(***************************************************************************)
EXTENDS Integers, Sequences, FiniteSets, TLC

VARIABLES
    \* retryWithBackoff: one call of the function
    rOptions,      \* the options object passed by the caller
    rPc,           \* "invoke" | "sleep" | "resolved" | "rejected"
    attempts,      \* the local counter `attempts`
    rResult,       \* the settled value or error (a JS value / raw error), NoResult before
    calls,         \* log of the invocations of fn: [ok, out]
    srCalls,       \* log of the calls of shouldRetry: [err, attempts, ret]
    delays,        \* log of the setTimeout delays started
    \* useErrorStore
    currentError,
    errorHistory,
    isErrorVisible,
    pushed,        \* log of the records pushed to the history since the last clearHistory
    nextId,        \* identity of the next error object created by a caller
    lastOp,        \* the last register operation called
    \* ErrorBoundary
    bState,        \* this.state: [hasError, error]
    bProps,        \* this.props: [fallback, hasOnError, hasResetKeys, resetKeys]
    bRendered,     \* what the last render() returned
    caught,        \* log of the raises the boundary caught: [raw, at]
    bEvent,        \* the last event: "mount" | "raise" | "update" | "reset"
    sinkLog,       \* calls of logErrorToMonitoring made by componentDidCatch
    onErrorLog,    \* calls of props.onError
    clock,         \* Date.now(), in ticks
    nodeEnv,       \* process.env.NODE_ENV
    \* ErrorManager: one call of handle or createFromHttpStatus
    mCall,         \* the call: [op, ...arguments, env, now]
    mResult,       \* what it returned, Pending before it returns
    \* the callers of the register and the useApi hook
    created,       \* the objects the callers created, by reference id
    apiLoading,    \* the hook's loading
    apiData,       \* the hook's data
    apiError,      \* the hook's error: a reference id, NullRef for undefined
    inflight,      \* the execute calls that await their request
    apiCount,      \* the number of execute calls made
    apiLast,       \* the execute call that settled last, and how
    appSink,       \* calls of logErrorToMonitoring made by the callers
    reportingEnabled, \* featureFlags.ENABLE_ERROR_REPORTING.enabled
    appOp,         \* the last event of the page
    \* one call of a function returned by withErrorHandling(fn, options)
    wOptions,      \* the options: context, shouldReport, transformError, each optional
    wPc,           \* "idle" | "awaiting" | "settled"
    wOutcome,      \* how fn settled: [ok, out]
    wResult,       \* how the call settled, and with what
    wSink,         \* calls of logErrorToMonitoring made by the wrapper
    \* ToastContainer
    tRendered,     \* [currentError, isErrorVisible] as the last render read them
    toasts         \* the errors showErrorToast was called with, in order

retryVars == <<rOptions, rPc, attempts, rResult, calls, srCalls, delays>>
storeVars == <<currentError, errorHistory, isErrorVisible, pushed, nextId, lastOp>>
boundaryVars == <<bState, bProps, bRendered, caught, bEvent, sinkLog, onErrorLog, clock, nodeEnv>>
managerVars == <<mCall, mResult>>
appVars == <<created, apiLoading, apiData, apiError, inflight, apiCount, apiLast, appSink,
             reportingEnabled, appOp>>
wrapperVars == <<wOptions, wPc, wOutcome, wResult, wSink>>
toastVars == <<tRendered, toasts>>
vars == <<retryVars, storeVars, boundaryVars, managerVars, appVars, wrapperVars,
          toastVars>>

-----------------------------------------------------------------------------
(* Bounds of the model *)

\* the largest maxRetries a caller passes
MaxRetriesArg == 7
\* the number of error objects callers create for the register
MaxErrors == 11
\* the number of times a caller passes the current record again
MaxRepeats == 1
\* the number of raises one boundary sees
MaxRaises == 2
\* the number of clock ticks
MaxClock == 1
\* the largest HTTP status passed to createFromHttpStatus
MaxStatus == 600
\* the number of objects the callers of the register create
MaxObjects == 2
\* the number of execute calls of one useApi hook
MaxExecutes == 2
\* the number of errors set while the toast container is mounted
MaxToastErrors == 6

-----------------------------------------------------------------------------
(* JavaScript values: undefined, null, numbers, strings, booleans, objects *)

Undefined == [t |-> "undefined", n |-> 0, s |-> "", b |-> FALSE]
Null == [t |-> "null", n |-> 0, s |-> "", b |-> FALSE]
Num(n) == [t |-> "number", n |-> n, s |-> "", b |-> FALSE]
Str(s) == [t |-> "string", n |-> 0, s |-> s, b |-> FALSE]
Bool(b) == [t |-> "boolean", n |-> 0, s |-> "", b |-> b]
Obj(s) == [t |-> "object", n |-> 0, s |-> s, b |-> FALSE]

\* ToBoolean
Truthy(v) ==
    CASE v.t = "undefined" -> FALSE
      [] v.t = "null" -> FALSE
      [] v.t = "number" -> v.n # 0
      [] v.t = "string" -> v.s # ""
      [] v.t = "boolean" -> v.b
      [] OTHER -> TRUE

\* a default parameter value: used when the argument is undefined
Default(v, d) == IF v = Undefined THEN d ELSE v

\* a || b
OrElse(a, b) == IF Truthy(a) THEN a ELSE b

-----------------------------------------------------------------------------
(* Strings: String.prototype.toLowerCase and String.prototype.includes *)

UpperChars == <<"A","B","C","D","E","F","G","H","I","J","K","L","M",
                "N","O","P","Q","R","S","T","U","V","W","X","Y","Z">>
LowerChars == <<"a","b","c","d","e","f","g","h","i","j","k","l","m",
                "n","o","p","q","r","s","t","u","v","w","x","y","z">>

LowerChar(c) ==
    IF \E i \in 1..Len(UpperChars) : UpperChars[i] = c
    THEN LowerChars[CHOOSE i \in 1..Len(UpperChars) : UpperChars[i] = c]
    ELSE c

RECURSIVE ToLowerCase(_)
ToLowerCase(s) ==
    IF Len(s) = 0 THEN ""
    ELSE LowerChar(SubSeq(s, 1, 1)) \o ToLowerCase(SubSeq(s, 2, Len(s)))

Includes(s, needle) ==
    \E i \in 1..(Len(s) - Len(needle) + 1) : SubSeq(s, i, i + Len(needle) - 1) = needle

-----------------------------------------------------------------------------
(* The typed error classes *)

\* the fields every BaseError instance carries (fieldErrors and retryAfter are
\* the subclass fields of ValidationError and RateLimitError)
NewInstance(cls, message, category, severity, code, data, retry, now) ==
    [cls |-> cls, message |-> message, category |-> category, severity |-> severity,
     timestamp |-> now, code |-> code, data |-> data, retry |-> retry,
     stack |-> Str("stack"), fieldErrors |-> <<>>, retryAfter |-> Undefined]

BaseError(message, category, severity, code, data, retry, now) ==
    NewInstance("BaseError", message.s, Default(category, Str("unknown")).s,
                Default(severity, Str("medium")).s, code, data,
                Default(retry, Bool(FALSE)).b, now)

NetworkError(message, code, data, retry, now) ==
    NewInstance("NetworkError", Default(message, Str("Network connection issue")).s,
                "network", "high", code, data, Default(retry, Bool(TRUE)).b, now)

TimeoutError(message, code, data, retry, now) ==
    [NetworkError(Default(message, Str("Request timed out")), code, data,
                  Default(retry, Bool(TRUE)), now)
        EXCEPT !.cls = "TimeoutError", !.severity = "medium"]

AuthenticationError(message, code, data, retry, now) ==
    NewInstance("AuthenticationError", Default(message, Str("Authentication failed")).s,
                "authentication", "high", code, data, Default(retry, Bool(TRUE)).b, now)

AuthorizationError(message, code, data, retry, now) ==
    NewInstance("AuthorizationError", Default(message, Str("Not authorized")).s,
                "authorization", "high", code, data, Default(retry, Bool(FALSE)).b, now)

SessionExpiredError(message, code, data, now) ==
    [AuthenticationError(Default(message, Str("Session expired")), code, data,
                         Bool(TRUE), now)
        EXCEPT !.cls = "SessionExpiredError"]

\* fieldErrors: the object's entries in key order, each [field, msgs]
ValidationError(message, fieldErrors, code, data, retry, now) ==
    [NewInstance("ValidationError", Default(message, Str("Validation failed")).s,
                 "validation", "medium", code, data, Default(retry, Bool(TRUE)).b, now)
        EXCEPT !.fieldErrors = fieldErrors]

ServerError(message, code, data, retry, now) ==
    NewInstance("ServerError", Default(message, Str("Server error occurred")).s,
                "server", "high", code, data, Default(retry, Bool(TRUE)).b, now)

NotFoundError(message, code, data, retry, now) ==
    NewInstance("NotFoundError", Default(message, Str("Resource not found")).s,
                "server", "medium", OrElse(code, Num(404)), data,
                Default(retry, Bool(FALSE)).b, now)

RateLimitError(message, retryAfter, code, data, now) ==
    [NewInstance("RateLimitError", Default(message, Str("Rate limit exceeded")).s,
                 "server", "medium", OrElse(code, Num(429)), data, TRUE, now)
        EXCEPT !.retryAfter = retryAfter]

\* `${n}` for an integer n
DecimalDigits == <<"0", "1", "2", "3", "4", "5", "6", "7", "8", "9">>

RECURSIVE NumToString(_)
NumToString(n) ==
    IF n < 0 THEN "-" \o NumToString(0 - n)
    ELSE IF n < 10 THEN DecimalDigits[n + 1]
    ELSE NumToString(n \div 10) \o DecimalDigits[(n % 10) + 1]

\* (a slip: the overrides are missing and BaseError's getUserMessage answers)
getUserMessage_NoOverride(e) == e.message

\* (a slip: the fixed copy answers when the first field has no first message)
getUserMessage_NoFallback(e) ==
    CASE e.cls = "NetworkError" ->
            "There was a problem connecting to the server. Please check your internet connection and try again."
      [] e.cls = "TimeoutError" ->
            "The request is taking longer than expected. Please try again later."
      [] e.cls = "AuthenticationError" ->
            "Authentication failed. Please check your credentials and try again."
      [] e.cls = "AuthorizationError" ->
            "You do not have permission to access this resource."
      [] e.cls = "SessionExpiredError" ->
            "Your session has expired. Please log in again."
      [] e.cls = "ValidationError" ->
            IF Len(e.fieldErrors) > 0
            THEN LET firstError ==
                        IF Len(e.fieldErrors[1].msgs) > 0
                        THEN Str(e.fieldErrors[1].msgs[1]) ELSE Undefined
                 IN  OrElse(firstError,
                            Str("Please review the form for errors and try again.")).s
            ELSE "Please review the form for errors and try again."
      [] e.cls = "ServerError" ->
            "An unexpected server error occurred. Our team has been notified."
      [] e.cls = "NotFoundError" ->
            "The requested resource was not found."
      [] e.cls = "RateLimitError" ->
            IF Truthy(e.retryAfter)
            THEN "Request limit reached. Please try again in "
                    \o NumToString(e.retryAfter.n) \o " seconds."
            ELSE "Request limit reached. Please try again later."
      [] OTHER -> e.message

\* getUserMessage(), dispatched on the class of the instance
getUserMessage(e) ==
    CASE e.cls = "NetworkError" ->
            "There was a problem connecting to the server. Please check your internet connection and try again."
      [] e.cls = "TimeoutError" ->
            "The request is taking longer than expected. Please try again later."
      [] e.cls = "AuthenticationError" ->
            "Authentication failed. Please check your credentials and try again."
      [] e.cls = "AuthorizationError" ->
            "You do not have permission to access this resource."
      [] e.cls = "SessionExpiredError" ->
            "Your session has expired. Please log in again."
      [] e.cls = "ValidationError" ->
            IF Len(e.fieldErrors) > 0
            THEN LET firstError ==
                        IF Len(e.fieldErrors[1].msgs) > 0
                        THEN Str(e.fieldErrors[1].msgs[1]) ELSE Undefined
                 IN  OrElse(firstError, Str(e.message)).s
            ELSE "Please review the form for errors and try again."
      [] e.cls = "ServerError" ->
            "An unexpected server error occurred. Our team has been notified."
      [] e.cls = "NotFoundError" ->
            "The requested resource was not found."
      [] e.cls = "RateLimitError" ->
            IF Truthy(e.retryAfter)
            THEN "Request limit reached. Please try again in "
                    \o NumToString(e.retryAfter.n) \o " seconds."
            ELSE "Request limit reached. Please try again later."
      [] OTHER -> e.message

-----------------------------------------------------------------------------
(* Raised values: a BaseError instance, a plain Error, or any other value *)

Typed(e) == [tag |-> "BaseError", e |-> e]
PlainError(message) == [tag |-> "Error", e |-> [message |-> message, stack |-> Str("stack")]]
Value(v) == [tag |-> "value", e |-> v]

-----------------------------------------------------------------------------
(* ErrorManager *)

ErrorResponse(message, severity, category, code, timestamp, data, retry, stack) ==
    [message |-> message, severity |-> severity, category |-> category, code |-> code,
     timestamp |-> timestamp, data |-> data, retry |-> retry, stack |-> stack]

formatErrorResponse(error, env) ==
    ErrorResponse(getUserMessage(error), error.severity, error.category, error.code,
                  error.timestamp, error.data, error.retry,
                  IF env # "production" THEN error.stack ELSE Undefined)

\* (a slip: the message is scanned as it is, without toLowerCase)
handleStandardError_CaseSensitive(error, env, now) ==
    LET lowerMessage == error.message
        class ==
            IF Includes(lowerMessage, "network") \/ Includes(lowerMessage, "fetch")
                  \/ Includes(lowerMessage, "connection")
            THEN <<"network", "high", TRUE>>
            ELSE IF Includes(lowerMessage, "timeout") \/ Includes(lowerMessage, "timed out")
            THEN <<"network", "medium", TRUE>>
            ELSE IF Includes(lowerMessage, "auth") \/ Includes(lowerMessage, "login")
                  \/ Includes(lowerMessage, "permission")
            THEN <<"authentication", "high", FALSE>>
            ELSE IF Includes(lowerMessage, "validate") \/ Includes(lowerMessage, "invalid")
            THEN <<"validation", "low", TRUE>>
            ELSE IF Includes(lowerMessage, "server") \/ Includes(lowerMessage, "500")
            THEN <<"server", "high", TRUE>>
            ELSE <<"unknown", "medium", TRUE>>
    IN  ErrorResponse(error.message, class[2], class[1], Undefined, now, Undefined,
                      class[3], IF env # "production" THEN error.stack ELSE Undefined)

handleStandardError(error, env, now) ==
    LET lowerMessage == ToLowerCase(error.message)
        class ==
            IF Includes(lowerMessage, "network") \/ Includes(lowerMessage, "fetch")
                  \/ Includes(lowerMessage, "connection")
            THEN <<"network", "high", TRUE>>
            ELSE IF Includes(lowerMessage, "timeout") \/ Includes(lowerMessage, "timed out")
            THEN <<"network", "medium", TRUE>>
            ELSE IF Includes(lowerMessage, "auth") \/ Includes(lowerMessage, "login")
                  \/ Includes(lowerMessage, "permission")
            THEN <<"authentication", "high", FALSE>>
            ELSE IF Includes(lowerMessage, "validate") \/ Includes(lowerMessage, "invalid")
            THEN <<"validation", "low", TRUE>>
            ELSE IF Includes(lowerMessage, "server") \/ Includes(lowerMessage, "500")
            THEN <<"server", "high", TRUE>>
            ELSE <<"unknown", "medium", TRUE>>
    IN  ErrorResponse(error.message, class[2], class[1], Undefined, now, Undefined,
                      class[3], IF env # "production" THEN error.stack ELSE Undefined)

handleStringError(error, now) ==
    ErrorResponse(error.s, "medium", "unknown", Undefined, now, Undefined, TRUE, Undefined)

\* (a slip: the value is not kept as data)
handleUnknownError_NoData(error, now) ==
    ErrorResponse("An unknown error occurred", "medium", "unknown", Undefined, now,
                  Undefined, TRUE, Undefined)

handleUnknownError(error, now) ==
    ErrorResponse("An unknown error occurred", "medium", "unknown", Undefined, now,
                  error, TRUE, Undefined)

\* (a slip: the test for Error comes first, and every BaseError is an Error)
handle_ErrorFirst(raw, env, now) ==
    IF raw.tag \in {"BaseError", "Error"}
    THEN handleStandardError([message |-> raw.e.message, stack |-> raw.e.stack], env, now)
    ELSE IF raw.e.t = "string" THEN handleStringError(raw.e, now)
    ELSE handleUnknownError(raw.e, now)

\* (a slip: the last return is missing, so other values give undefined)
handle_NoFallback(raw, env, now) ==
    IF raw.tag = "BaseError" THEN formatErrorResponse(raw.e, env)
    ELSE IF raw.tag = "Error" THEN handleStandardError(raw.e, env, now)
    ELSE IF raw.e.t = "string" THEN handleStringError(raw.e, now)
    ELSE Undefined

\* ErrorManager.handle(error), called at time `now` under NODE_ENV `env`
handle(raw, env, now) ==
    IF raw.tag = "BaseError" THEN formatErrorResponse(raw.e, env)
    ELSE IF raw.tag = "Error" THEN handleStandardError(raw.e, env, now)
    ELSE IF raw.e.t = "string" THEN handleStringError(raw.e, now)
    ELSE handleUnknownError(raw.e, now)

\* (a slip: the exclusions of production are applied in every mode)
shouldReport_AnyMode(error, env) ==
    IF error.category = "validation" \/ error.code = Num(404)
    THEN FALSE
    ELSE IF error.severity = "high" \/ error.severity = "critical" THEN TRUE
    ELSE IF error.severity = "medium" /\ error.category # "validation" THEN TRUE
    ELSE FALSE

shouldReport(error, env) ==
    IF env = "production" /\ (error.category = "validation" \/ error.code = Num(404))
    THEN FALSE
    ELSE IF error.severity = "high" \/ error.severity = "critical" THEN TRUE
    ELSE IF error.severity = "medium" /\ error.category # "validation" THEN TRUE
    ELSE FALSE

\* (a slip: 404 is answered by the generic error)
createFromHttpStatus_No404(status, message, data, now) ==
    IF status = 400
    THEN ValidationError(OrElse(message, Str("Bad Request")), <<>>, Num(status), data,
                         Undefined, now)
    ELSE IF status = 401
    THEN AuthenticationError(OrElse(message, Str("Unauthorized")), Num(status), data,
                             Undefined, now)
    ELSE IF status = 403
    THEN AuthorizationError(OrElse(message, Str("Forbidden")), Num(status), data,
                            Undefined, now)
    ELSE IF status = 429
    THEN RateLimitError(OrElse(message, Str("Too Many Requests")), Undefined, Num(status),
                        data, now)
    ELSE IF status >= 500
    THEN ServerError(OrElse(message, Str("Server Error")), Num(status), data, Undefined, now)
    ELSE BaseError(OrElse(message, Str("HTTP Error " \o NumToString(status))),
                   Str("unknown"), Str("medium"), Num(status), data, Undefined, now)

\* ErrorManager.createFromHttpStatus(status, message, data), called at time `now`
createFromHttpStatus(status, message, data, now) ==
    IF status = 400
    THEN ValidationError(OrElse(message, Str("Bad Request")), <<>>, Num(status), data,
                         Undefined, now)
    ELSE IF status = 401
    THEN AuthenticationError(OrElse(message, Str("Unauthorized")), Num(status), data,
                             Undefined, now)
    ELSE IF status = 403
    THEN AuthorizationError(OrElse(message, Str("Forbidden")), Num(status), data,
                            Undefined, now)
    ELSE IF status = 404
    THEN NotFoundError(OrElse(message, Str("Not Found")), Num(status), data, Undefined, now)
    ELSE IF status = 429
    THEN RateLimitError(OrElse(message, Str("Too Many Requests")), Undefined, Num(status),
                        data, now)
    ELSE IF status >= 500
    THEN ServerError(OrElse(message, Str("Server Error")), Num(status), data, Undefined, now)
    ELSE BaseError(OrElse(message, Str("HTTP Error " \o NumToString(status))),
                   Str("unknown"), Str("medium"), Num(status), data, Undefined, now)

-----------------------------------------------------------------------------
(* retryWithBackoff *)

DefaultMaxRetries == 3
DefaultInitialDelayMs == 1000
DefaultMaxDelayMs == 10000
DefaultBackoffFactor == 2

\* an object with no own properties
EmptyObject == [f \in {} |-> 0]

\* a destructured option with its default: the default applies when the property is absent
Opt(o, f, d) == IF f \in DOMAIN o THEN o[f] ELSE d

maxRetries(o) == Opt(o, "maxRetries", DefaultMaxRetries)
initialDelayMs(o) == Opt(o, "initialDelayMs", DefaultInitialDelayMs)
maxDelayMs(o) == Opt(o, "maxDelayMs", DefaultMaxDelayMs)
backoffFactor(o) == Opt(o, "backoffFactor", DefaultBackoffFactor)

\* Math.pow(b, n) for an integer n >= 0 (Math.pow(b, 0) is 1 for every b)
RECURSIVE Pow(_, _)
Pow(b, n) == IF n <= 0 THEN 1 ELSE b * Pow(b, n - 1)

\* Math.min
Min(a, b) == IF a <= b THEN a ELSE b

\* what the shouldRetry the caller passed may answer for (error, attempts):
\* the default is () => true; "arbitrary" is any predicate; the third is the demo page's
ShouldRetryAnswers(o, error, n) ==
    IF "shouldRetry" \notin DOMAIN o THEN {TRUE}
    ELSE IF o.shouldRetry = "instanceofNetworkError"
    THEN {error.tag = "BaseError" /\ error.e.cls \in {"NetworkError", "TimeoutError"}}
    ELSE BOOLEAN

\* (a slip: two more attempts are allowed)
MaxRetriesReached_TwoMore(n, o) == n >= maxRetries(o) + 2

\* (a slip: > for >=)
MaxRetriesReached_Gt(n, o) == n > maxRetries(o)

\* the first operand of the || in the catch block
MaxRetriesReached(n, o) == n >= maxRetries(o)

\* (a slip: the count before the increment is passed)
ShouldRetryCall_Before(error, n, ret) == [err |-> error, attempts |-> n - 1, ret |-> ret]

\* the call shouldRetry(error, attempts) and its answer
ShouldRetryCall(error, n, ret) == [err |-> error, attempts |-> n, ret |-> ret]

\* (a slip: the exponent is attempts)
BackoffDelay_Exp(o, n) ==
    Min(initialDelayMs(o) * Pow(backoffFactor(o), n), maxDelayMs(o))

\* the delay before the next invocation, after `n` failures
BackoffDelay(o, n) ==
    Min(initialDelayMs(o) * Pow(backoffFactor(o), n - 1), maxDelayMs(o))

\* the options callers pass
MaxRetriesChoices ==
    {EmptyObject} \cup {[maxRetries |-> k] : k \in -1..MaxRetriesArg}
DelayChoices ==
    { EmptyObject,
      [initialDelayMs |-> 500],
      [maxDelayMs |-> 3000],
      [initialDelayMs |-> 1, maxDelayMs |-> 5, backoffFactor |-> 3],
      [initialDelayMs |-> 2, maxDelayMs |-> 10, backoffFactor |-> 1],
      [initialDelayMs |-> 3, maxDelayMs |-> 4, backoffFactor |-> 0] }
ShouldRetryChoices ==
    { EmptyObject, [shouldRetry |-> "arbitrary"],
      [shouldRetry |-> "instanceofNetworkError"] }
RetryOptions ==
    { m @@ d @@ s : m \in MaxRetriesChoices, d \in DelayChoices, s \in ShouldRetryChoices }

\* what an invocation of fn may throw, and what it may return
OpErrors ==
    { Typed(NetworkError(Str("Connection failed"), Undefined, Undefined, Undefined, 0)),
      PlainError("boom") }
OpValues == { Value(Str("v1")), Value(Str("v2")) }

NoResult == [kind |-> "none", out |-> Value(Undefined)]

RetryInit ==
    /\ rOptions \in RetryOptions
    /\ rPc = "invoke"
    /\ attempts = 0
    /\ rResult = NoResult
    /\ calls = <<>>
    /\ srCalls = <<>>
    /\ delays = <<>>

\* (a slip: the result is kept but the loop is not left)
RetryInvokeOk_NoReturn(v) ==
    /\ rPc = "invoke"
    /\ Len(calls) <= MaxRetriesArg
    /\ calls' = Append(calls, [ok |-> TRUE, out |-> v])
    /\ rPc' = "invoke"
    /\ rResult' = [kind |-> "value", out |-> v]
    /\ UNCHANGED <<rOptions, attempts, srCalls, delays>>

\* `return await fn()` when fn resolves with v
RetryInvokeOk(v) ==
    /\ rPc = "invoke"
    /\ calls' = Append(calls, [ok |-> TRUE, out |-> v])
    /\ rPc' = "resolved"
    /\ rResult' = [kind |-> "value", out |-> v]
    /\ UNCHANGED <<rOptions, attempts, srCalls, delays>>

\* fn rejects with error and the catch block throws it: attempts reached maxRetries
\* (shouldRetry is not evaluated), or shouldRetry answered false
RetryInvokeThrow(error) ==
    /\ rPc = "invoke"
    /\ calls' = Append(calls, [ok |-> FALSE, out |-> error])
    /\ attempts' = attempts + 1
    /\ \/ /\ MaxRetriesReached(attempts', rOptions)
          /\ srCalls' = srCalls
       \/ /\ ~MaxRetriesReached(attempts', rOptions)
          /\ FALSE \in ShouldRetryAnswers(rOptions, error, attempts')
          /\ srCalls' = Append(srCalls, ShouldRetryCall(error, attempts', FALSE))
    /\ rPc' = "rejected"
    /\ rResult' = [kind |-> "error", out |-> error]
    /\ UNCHANGED <<rOptions, delays>>

\* fn rejects with error, shouldRetry answers true, and the delay is started
RetryInvokeRetry(error) ==
    /\ rPc = "invoke"
    /\ calls' = Append(calls, [ok |-> FALSE, out |-> error])
    /\ attempts' = attempts + 1
    /\ ~MaxRetriesReached(attempts', rOptions)
    /\ TRUE \in ShouldRetryAnswers(rOptions, error, attempts')
    /\ srCalls' = Append(srCalls, ShouldRetryCall(error, attempts', TRUE))
    /\ delays' = Append(delays, BackoffDelay(rOptions, attempts'))
    /\ rPc' = "sleep"
    /\ UNCHANGED <<rOptions, rResult>>

\* the timer fires and the loop goes round
RetryDelayElapsed ==
    /\ rPc = "sleep"
    /\ rPc' = "invoke"
    /\ UNCHANGED <<rOptions, attempts, rResult, calls, srCalls, delays>>


-----------------------------------------------------------------------------
(* useErrorStore: the global error register *)

\* `.slice(0, 10)` in addToHistory
HistoryLimit == 10

\* null; every other value of currentError and every entry of errorHistory is a
\* reference id >= 1 to the record StoreErrors[id]
NullRef == 0

\* Boolean(error)
IsSet(error) == error # NullRef

\* what the callers of the register raise: the id is the identity of the record
StoreRaws ==
    << PlainError("Unknown error occurred"),
       Typed(NotFoundError(Str("User not found"), Undefined, Undefined, Undefined, 0)),
       Value(Str("failed")) >>

\* the records callers create: the id-th is the normalization, at time id, of one
\* of the values above
StoreErrors ==
    [id \in 1..(MaxErrors + 1) |->
        handle(StoreRaws[(id % Len(StoreRaws)) + 1], "development", id)]

\* a reference to the id-th record
NewError(id) == id

\* arr.slice(0, n)
Slice0(arr, n) == SubSeq(arr, 1, Min(Len(arr), n))

\* (a slip: the slice is forgotten)
PushFront_NoSlice(error, history) == <<error>> \o history

\* (a slip: the record is added at the end)
PushFront_AtEnd(error, history) == Slice0(history \o <<error>>, HistoryLimit)

\* [error, ...state.errorHistory].slice(0, 10)
PushFront(error, history) == Slice0(<<error>> \o history, HistoryLimit)

\* (a slip: always shown)
VisibleFor_Always(error) == TRUE

\* the value of isErrorVisible that setError(error) sets
VisibleFor(error) == IsSet(error)

\* the errors a caller may pass: a new record, or the current one again
Repeats == Len(pushed) - Cardinality({pushed[i] : i \in 1..Len(pushed)})
ErrorArgs ==
    (IF nextId <= MaxErrors THEN {NewError(nextId)} ELSE {}) \cup (IF IsSet(currentError) /\ Repeats < MaxRepeats THEN {currentError} ELSE {})

Used(error) == IF error = nextId THEN nextId + 1 ELSE nextId

StoreInit ==
    /\ currentError = NullRef
    /\ errorHistory = <<>>
    /\ isErrorVisible = FALSE
    /\ pushed = <<>>
    /\ nextId = 1
    /\ lastOp = "create"

addToHistory(error) ==
    /\ Len(pushed) < MaxErrors
    /\ errorHistory' = PushFront(error, errorHistory)
    /\ pushed' = Append(pushed, error)
    /\ nextId' = Used(error)
    /\ lastOp' = "addToHistory"
    /\ UNCHANGED <<currentError, isErrorVisible>>

\* setError(error): set(...) and then, for a truthy error, get().addToHistory(error)
setError(error) ==
    /\ currentError' = error
    /\ isErrorVisible' = VisibleFor(error)
    /\ IF IsSet(error)
       THEN /\ Len(pushed) < MaxErrors
            /\ errorHistory' = PushFront(error, errorHistory)
            /\ pushed' = Append(pushed, error)
       ELSE UNCHANGED <<errorHistory, pushed>>
    /\ nextId' = Used(error)
    /\ lastOp' = "setError"

\* (a slip: the history is emptied as well)
clearError_AndHistory ==
    /\ currentError' = NullRef
    /\ isErrorVisible' = FALSE
    /\ errorHistory' = <<>>
    /\ lastOp' = "clearError"
    /\ UNCHANGED <<pushed, nextId>>

clearError ==
    /\ currentError' = NullRef
    /\ isErrorVisible' = FALSE
    /\ lastOp' = "clearError"
    /\ UNCHANGED <<errorHistory, pushed, nextId>>

\* (a slip: shown only when there is an error)
showError_IfSet ==
    /\ isErrorVisible' = IsSet(currentError)
    /\ lastOp' = "showError"
    /\ UNCHANGED <<currentError, errorHistory, pushed, nextId>>

showError ==
    /\ isErrorVisible' = TRUE
    /\ lastOp' = "showError"
    /\ UNCHANGED <<currentError, errorHistory, pushed, nextId>>

hideError ==
    /\ isErrorVisible' = FALSE
    /\ lastOp' = "hideError"
    /\ UNCHANGED <<currentError, errorHistory, pushed, nextId>>

clearHistory ==
    /\ errorHistory' = <<>>
    /\ pushed' = <<>>
    /\ lastOp' = "clearHistory"
    /\ UNCHANGED <<currentError, isErrorVisible, nextId>>


-----------------------------------------------------------------------------
(* ErrorBoundary *)

\* this.state.error = null
NoError == [isNull |-> TRUE]

\* what the guarded region raises
BoundaryRaws ==
    { PlainError("Network request failed"),
      Typed(ValidationError(Str("Form validation failed"),
                            <<[field |-> "email", msgs |-> <<"Invalid email format">>]>>,
                            Undefined, Undefined, Undefined, 0)),
      Value(Str("")) }

\* the outcome of rendering the guarded region: it returns, or it raises a value
Returns == [tag |-> "returns"]
RenderOutcomes == {Returns} \cup BoundaryRaws

\* the props a parent passes; fallback is absent ("none"), a node or a function
ResetKeysChoices == {<<0>>, <<1>>, <<0, 0>>}
BoundaryProps ==
    [fallback : {"none", "node", "function"}, hasOnError : BOOLEAN,
     hasResetKeys : {TRUE}, resetKeys : ResetKeysChoices]
        \cup [fallback : {"none", "node", "function"}, hasOnError : BOOLEAN,
              hasResetKeys : {FALSE}, resetKeys : {<<>>}]

\* the props of a later render: the parent passes the same kind of fallback and the
\* same onError on every render, and any resetKeys
NextProps ==
    {p \in BoundaryProps : p.fallback = bProps.fallback /\ p.hasOnError = bProps.hasOnError}

StableState == [hasError |-> FALSE, error |-> NoError]

\* ErrorManager.handle on the values the guarded region raises, tabulated
Handled ==
    [raw \in BoundaryRaws, env \in {"development", "production"}, now \in 0..(MaxClock + 1)
        |-> handle(raw, env, now)]

\* (a slip: the error is kept but hasError is not set)
getDerivedStateFromError_NoFlag(error, env, now) ==
    [hasError |-> FALSE, error |-> Handled[error, env, now]]

getDerivedStateFromError(error, env, now) ==
    [hasError |-> TRUE, error |-> Handled[error, env, now]]

\* (a slip: the report is made whatever shouldReport answers)
DidCatchSink_Always(error, env, now, sink) == Append(sink, Handled[error, env, now])

\* the sink and observer logs after componentDidCatch(error, errorInfo) at time now
DidCatchSink(error, env, now, sink) ==
    LET processedError == Handled[error, env, now]
    IN  IF shouldReport(processedError, env) THEN Append(sink, processedError) ELSE sink

DidCatchOnError(error, env, now, props, observed) ==
    LET processedError == Handled[error, env, now]
    IN  IF props.hasOnError THEN Append(observed, processedError) ELSE observed

hasResetKeysChanged(prevKeys, nextKeys) ==
    \/ Len(prevKeys) # Len(nextKeys)
    \/ \E index \in 1..Len(prevKeys) : prevKeys[index] # nextKeys[index]

\* (a slip: the keys are not compared)
DidUpdateResets_NoCompare(prevProps, props, state) ==
    /\ props.hasResetKeys
    /\ prevProps.hasResetKeys
    /\ state.hasError

\* the condition of componentDidUpdate(prevProps) under which it calls reset()
DidUpdateResets(prevProps, props, state) ==
    /\ props.hasResetKeys
    /\ prevProps.hasResetKeys
    /\ state.hasError
    /\ hasResetKeysChanged(prevProps.resetKeys, props.resetKeys)

\* render()
Render(state, props) ==
    IF state.hasError /\ state.error # NoError
    THEN IF props.fallback = "function"
         THEN [kind |-> "fallback(error)", arg |-> state.error, text |-> ""]
         ELSE IF props.fallback = "node"
         THEN [kind |-> "fallback", arg |-> NoError, text |-> ""]
         ELSE [kind |-> "default", arg |-> NoError,
               text |-> OrElse(Str(state.error.message),
                               Str("An unexpected error occurred.")).s]
    ELSE [kind |-> "children", arg |-> NoError, text |-> ""]

\* One pass of React over the boundary: when `state` renders the guarded region
\* and the region raises, getDerivedStateFromError gives the next state and
\* componentDidCatch runs in the commit (at time t2 >= the time of the render).
\* The result is the state, the logs and the clock after the pass.
Pass(state, props, outcome, env, now, t2, b) ==
    IF ~(state.hasError /\ state.error # NoError) /\ outcome # Returns
    THEN [state |-> getDerivedStateFromError(outcome, env, now),
          caught |-> Append(b.caught, [raw |-> outcome, at |-> now]),
          sink |-> DidCatchSink(outcome, env, t2, b.sink),
          observed |-> DidCatchOnError(outcome, env, t2, props, b.observed),
          clock |-> t2]
    ELSE [state |-> state, caught |-> b.caught, sink |-> b.sink,
          observed |-> b.observed, clock |-> now]

\* (a slip: the error is cleared and the flag is kept)
ResetState_KeepFlag(state) == [hasError |-> state.hasError, error |-> NoError]

\* (a slip: the flag is cleared and the error is kept)
ResetState_KeepError(state) == [hasError |-> FALSE, error |-> state.error]

\* this.reset(): setState({hasError: false, error: null})
ResetState(state) == [hasError |-> FALSE, error |-> NoError]

Logs == [caught |-> caught, sink |-> sinkLog, observed |-> onErrorLog]

Later(t) == {u \in t..MaxClock : u <= t + 1}

Commit(p, props, event) ==
    /\ bState' = p.state
    /\ bProps' = props
    /\ bRendered' = Render(p.state, props)
    /\ caught' = p.caught
    /\ sinkLog' = p.sink
    /\ onErrorLog' = p.observed
    /\ clock' = p.clock
    /\ bEvent' = event
    /\ UNCHANGED nodeEnv

BoundaryInit ==
    /\ bState = StableState
    /\ bProps \in BoundaryProps
    /\ bRendered = Render(StableState, bProps)
    /\ caught = <<>>
    /\ bEvent = "mount"
    /\ sinkLog = <<>>
    /\ onErrorLog = <<>>
    /\ clock = 0
    /\ nodeEnv \in {"development", "production"}

\* a component of the guarded region re-renders and raises: the props are the same,
\* so the componentDidUpdate that follows sees no change of resetKeys
Raise(raw) ==
    /\ ~bState.hasError
    /\ Len(caught) < MaxRaises
    /\ \E t2 \in Later(clock) :
          Commit(Pass(bState, bProps, raw, nodeEnv, clock, t2, Logs), bProps, "raise")

\* the parent re-renders the boundary with props: the guarded region is rendered
\* if the boundary is stable (outcome1); componentDidUpdate(prevProps) then resets
\* a failed boundary whose resetKeys changed, and the guarded region is rendered
\* again (outcome2)
Update(props, outcome1, outcome2) ==
    /\ Len(caught) + 2 <= MaxRaises \/ (outcome1 = Returns /\ outcome2 = Returns)
    /\ \E t2 \in Later(clock) :
          LET p1 == Pass(bState, props, outcome1, nodeEnv, clock, t2, Logs)
          IN  IF DidUpdateResets(bProps, props, p1.state)
              THEN \E t3 \in Later(p1.clock) :
                      Commit(Pass(ResetState(p1.state), props, outcome2, nodeEnv, p1.clock, t3,
                                  [caught |-> p1.caught, sink |-> p1.sink,
                                   observed |-> p1.observed]),
                             props, "update")
              ELSE /\ outcome2 = Returns
                   /\ Commit(p1, props, "update")

\* the guarded region is rendered a second time only after a reset
SecondOutcomes(props, outcome1) ==
    IF DidUpdateResets(bProps, props, [hasError |-> bState.hasError \/ outcome1 # Returns])
    THEN RenderOutcomes ELSE {Returns}

\* reset() is called (the "Try again" button of the default fallback, or a caller
\* holding the instance): the state is cleared and the guarded region rendered again
Reset(outcome) ==
    /\ Len(caught) < MaxRaises \/ outcome = Returns
    /\ \E t2 \in Later(clock) :
          Commit(Pass(ResetState(bState), bProps, outcome, nodeEnv, clock, t2, Logs),
                 bProps, "reset")

Tick ==
    /\ clock < MaxClock
    /\ clock' = clock + 1
    /\ UNCHANGED <<bState, bProps, bRendered, caught, bEvent, sinkLog, onErrorLog, nodeEnv>>


-----------------------------------------------------------------------------
(* ErrorManager: the calls made of it *)

Pending == [pending |-> TRUE]

Envs == {"development", "production"}
Times == 0..MaxClock

\* the arguments callers pass to the constructors of the typed errors
MessageArgs == {Undefined, Str(""), Str("invalid login"), Str("Custom message")}
CodeArgs == {Undefined, Num(0), Num(404), Str("E42")}
DataArgs == {Undefined, Obj("payload")}
RetryArgs == {Undefined, Bool(TRUE), Bool(FALSE)}
RetryAfterArgs == {Undefined, Num(0), Num(30)}
FieldErrorsArgs ==
    { <<>>,
      <<[field |-> "email", msgs |-> <<"Email is required", "Email is invalid">>]>>,
      <<[field |-> "email", msgs |-> <<>>]>>,
      <<[field |-> "email", msgs |-> <<"">>]>>,
      <<[field |-> "name", msgs |-> <<>>], [field |-> "email", msgs |-> <<"Email is required">>]>> }
CategoryArgs ==
    {Undefined, Str("network"), Str("validation"), Str("authentication"),
     Str("authorization"), Str("server"), Str("client"), Str("unknown")}
SeverityArgs == {Undefined, Str("low"), Str("medium"), Str("high"), Str("critical")}

\* the instances of the typed error classes
TypedErrors ==
    {NetworkError(m, c, d, r, t) :
        m \in MessageArgs, c \in CodeArgs, d \in DataArgs, r \in RetryArgs, t \in Times}
    \cup {TimeoutError(m, c, d, r, t) :
        m \in MessageArgs, c \in CodeArgs, d \in DataArgs, r \in RetryArgs, t \in Times}
    \cup {AuthenticationError(m, c, d, r, t) :
        m \in MessageArgs, c \in CodeArgs, d \in DataArgs, r \in RetryArgs, t \in Times}
    \cup {AuthorizationError(m, c, d, r, t) :
        m \in MessageArgs, c \in CodeArgs, d \in DataArgs, r \in RetryArgs, t \in Times}
    \cup {SessionExpiredError(m, c, d, t) :
        m \in MessageArgs, c \in CodeArgs, d \in DataArgs, t \in Times}
    \cup {ValidationError(m, f, c, d, r, t) :
        m \in MessageArgs, f \in FieldErrorsArgs, c \in CodeArgs, d \in DataArgs,
        r \in RetryArgs, t \in Times}
    \cup {ServerError(m, c, d, r, t) :
        m \in MessageArgs, c \in CodeArgs, d \in DataArgs, r \in RetryArgs, t \in Times}
    \cup {NotFoundError(m, c, d, r, t) :
        m \in MessageArgs, c \in CodeArgs, d \in DataArgs, r \in RetryArgs, t \in Times}
    \cup {RateLimitError(m, a, c, d, t) :
        m \in MessageArgs, a \in RetryAfterArgs, c \in CodeArgs, d \in DataArgs, t \in Times}
    \cup {BaseError(m, c, v, k, Undefined, r, t) :
        m \in MessageArgs \ {Undefined}, c \in CategoryArgs, v \in SeverityArgs,
        k \in {Undefined, Num(404)}, r \in {Undefined, Bool(TRUE)}, t \in Times}

\* the messages of the plain Error objects
ErrorMessages ==
    { "", "boom", "Network request failed", "Failed to FETCH", "Connection reset",
      "Request Timeout", "operation timed out", "Unauthorized", "LOGIN required",
      "Permission denied", "could not validate", "Invalid input", "Internal Server Error",
      "HTTP 500", "invalid server connection", "invalid login", "server timeout",
      "auth server", "Validate 500", "time out" }

\* the values that are neither typed errors nor Error objects
OtherValues ==
    { Str(""), Str("boom"), Str("network down"), Null, Undefined, Num(0), Num(42),
      Bool(FALSE), Obj("payload"), Obj("{message: 'network'}") }

ManagerRaws ==
    {Typed(e) : e \in TypedErrors} \cup {PlainError(m) : m \in ErrorMessages}
        \cup {Value(v) : v \in OtherValues}

HandleCalls ==
    {[op |-> "handle", error |-> raw, env |-> env, now |-> t] :
        raw \in ManagerRaws, env \in Envs, t \in Times}

CreateCalls ==
    {[op |-> "createFromHttpStatus", status |-> st, message |-> m, data |-> d, now |-> t] :
        st \in (0 - 1)..MaxStatus, m \in {Undefined, Str(""), Str("Custom message")},
        d \in DataArgs, t \in Times}

\* the records shouldReport is asked about
ReportCandidates ==
    {ErrorResponse("Something failed", v.s, c.s, k, 0, Undefined, TRUE, Undefined) :
        v \in SeverityArgs \ {Undefined}, c \in CategoryArgs \ {Undefined},
        k \in {Undefined, Num(404), Num(500), Str("404")}}

ShouldReportCalls ==
    {[op |-> "shouldReport", error |-> e, env |-> env] : e \in ReportCandidates, env \in Envs}

ManagerInit ==
    /\ mCall \in HandleCalls \cup CreateCalls \cup ShouldReportCalls
    /\ mResult = Pending

\* ErrorManager.handle(error) returns
Handle ==
    /\ mCall.op = "handle"
    /\ mResult = Pending
    /\ mResult' = handle(mCall.error, mCall.env, mCall.now)
    /\ UNCHANGED mCall

\* ErrorManager.createFromHttpStatus(status, message, data) returns
CreateFromHttpStatus ==
    /\ mCall.op = "createFromHttpStatus"
    /\ mResult = Pending
    /\ mResult' = createFromHttpStatus(mCall.status, mCall.message, mCall.data, mCall.now)
    /\ UNCHANGED mCall

\* ErrorManager.shouldReport(error) returns
ShouldReport ==
    /\ mCall.op = "shouldReport"
    /\ mResult = Pending
    /\ mResult' = [returned |-> shouldReport(mCall.error, mCall.env)]
    /\ UNCHANGED mCall

\* the caller passes the error it got from createFromHttpStatus to handle
HandleCreated(env) ==
    /\ mCall.op = "createFromHttpStatus"
    /\ mResult # Pending
    /\ \E t \in Times :
          /\ t >= mCall.now
          /\ mCall' = [op |-> "handle", error |-> Typed(mResult), env |-> env, now |-> t]
    /\ mResult' = Pending

-----------------------------------------------------------------------------
(* The callers of the register: the global handlers, the demo page and useApi *)

\* the objects the callers created, by reference id: an ErrorResponse record that
\* ErrorManager.handle returned, or the raw value a caller built or caught
Normalized(record) == [kind |-> "ErrorResponse", v |-> record]
RawValue(raw) == [kind |-> "raw", v |-> raw]

\* the feature flag ENABLE_ERROR_REPORTING: `flag?.enabled === true`
isFeatureEnabled == reportingEnabled

\* updateFeatureFlag('ENABLE_ERROR_REPORTING', enabled)
updateFeatureFlag(enabled) == reportingEnabled' = enabled

\* the caller's object gets the next reference id
Create(object) ==
    /\ nextId <= MaxObjects
    /\ created' = Append(created, object)

\* the register is not called: only the reference id is used up
NoRegisterCall ==
    /\ nextId' = nextId + 1
    /\ UNCHANGED <<currentError, errorHistory, isErrorVisible, pushed, lastOp>>

HookAtRest == UNCHANGED <<apiLoading, apiData, apiError, inflight, apiCount, apiLast>>

\* `error || message`
OrMessage(error, message) == IF error = Value(Undefined) THEN Value(message) ELSE error

\* what window.onerror is called with: the message and the error object, absent
\* for an error of a script of another origin
WindowErrors ==
    { [message |-> Str("Uncaught Error: boom"), error |-> PlainError("boom")],
      [message |-> Str("Script error."), error |-> Value(Undefined)] }

\* event.reason of an unhandled rejection
RejectionReasons ==
    { Typed(NetworkError(Str("Failed to fetch"), Undefined, Undefined, Undefined, 0)) }

\* ErrorManager.handle on what the global handlers are called with, tabulated
HandledGlobally ==
    [raw \in {OrMessage(w.error, w.message) : w \in WindowErrors} \cup RejectionReasons,
     env \in Envs, now \in Times |-> handle(raw, env, now)]

\* window.onerror = (message, source, lineno, colno, error) => ...
WindowOnError(message, error) ==
    LET processedError == HandledGlobally[OrMessage(error, message), nodeEnv, clock]
    IN  /\ Create(Normalized(processedError))
        /\ appSink' = Append(appSink, [error |-> nextId, type |-> "window.onerror"])
        /\ setError(nextId)
        /\ appOp' = "window.onerror"
        /\ HookAtRest
        /\ UNCHANGED reportingEnabled

\* window.onunhandledrejection = (event) => ...
OnUnhandledRejection(reason) ==
    LET processedError == HandledGlobally[reason, nodeEnv, clock]
    IN  /\ Create(Normalized(processedError))
        /\ appSink' = Append(appSink, [error |-> nextId, type |-> "unhandledRejection"])
        /\ setError(nextId)
        /\ appOp' = "onunhandledrejection"
        /\ HookAtRest
        /\ UNCHANGED reportingEnabled

\* the switch of triggerError: the error the demo page builds for errorType
DemoError(errorType, now) ==
    IF errorType = "network"
    THEN Typed(NetworkError(Str("Failed to connect to API"), Undefined, Undefined,
                            Undefined, now))
    ELSE IF errorType = "auth"
    THEN Typed(AuthenticationError(Str("Your session has expired"), Undefined, Undefined,
                                   Undefined, now))
    ELSE IF errorType = "forbidden"
    THEN Typed(AuthorizationError(
                   Str("You do not have permission to access this resource"),
                   Undefined, Undefined, Undefined, now))
    ELSE IF errorType = "validation"
    THEN Typed(ValidationError(Str("Form validation failed"),
                   << [field |-> "email", msgs |-> <<"Invalid email format">>],
                      [field |-> "password",
                       msgs |-> <<"Password must be at least 8 characters">>] >>,
                   Undefined, Undefined, Undefined, now))
    ELSE IF errorType = "notfound"
    THEN Typed(NotFoundError(Str("Resource not found"), Undefined, Undefined, Undefined,
                             now))
    ELSE IF errorType = "server"
    THEN Typed(ServerError(Str("Internal Server Error"), Num(500), Undefined, Undefined,
                           now))
    ELSE PlainError("Unknown error occurred")

\* the buttons of the demo page, and one type the switch does not know
ErrorTypes == {"network", "other"}

\* the timer callback of triggerError(errorType): the error goes to the register
\* and to the monitoring sink as it was built
TriggerError(errorType) ==
    LET error == DemoError(errorType, clock)
    IN  /\ Create(RawValue(error))
        /\ setError(nextId)
        /\ appSink' = Append(appSink, [error |-> nextId, type |-> "triggerError"])
        /\ appOp' = "triggerError"
        /\ HookAtRest
        /\ UNCHANGED reportingEnabled

\* the options simulateRetry passes to retryWithBackoff
DemoRetryOptions ==
    [maxRetries |-> 5, initialDelayMs |-> 500, shouldRetry |-> "instanceofNetworkError"]

\* the operation simulateRetry passes, at its k-th invocation
DemoOperation(k) ==
    IF k < 3
    THEN [ok |-> FALSE,
          out |-> Typed(NetworkError(
                            Str("Connection failed (attempt " \o NumToString(k) \o ")"),
                            Undefined, Undefined, Undefined, 0))]
    ELSE [ok |-> TRUE, out |-> Value(Obj("{success, attempts}"))]

\* retryWithBackoff(operation, DemoRetryOptions) after n failed attempts
RECURSIVE DemoRetry(_)
DemoRetry(n) ==
    LET r == DemoOperation(n + 1)
    IN  IF r.ok THEN [kind |-> "value", out |-> r.out]
        ELSE IF MaxRetriesReached(n + 1, DemoRetryOptions)
                  \/ FALSE \in ShouldRetryAnswers(DemoRetryOptions, r.out, n + 1)
        THEN [kind |-> "error", out |-> r.out]
        ELSE DemoRetry(n + 1)

\* simulateRetry: the catch block passes what retryWithBackoff threw to the register
SimulateRetry ==
    LET result == DemoRetry(0)
    IN  /\ IF result.kind = "error"
           THEN /\ Create(RawValue(result.out))
                /\ setError(nextId)
           ELSE /\ UNCHANGED created
                /\ UNCHANGED storeVars
        /\ appOp' = "simulateRetry"
        /\ HookAtRest
        /\ UNCHANGED <<appSink, reportingEnabled>>

\* objects that have a `message` property, and its value
ObjectsWithMessage == {Obj("{message: 'Email taken'}")}
MessageProperty(data) == Str("Email taken")

\* what axios rejects with: an AxiosError with a response, an AxiosError without
\* one (the request never got an answer), or anything else thrown on the way
AxiosFailure(status, data) ==
    [isAxiosError |-> TRUE, hasResponse |-> TRUE, status |-> status, data |-> data,
     message |-> "Request failed with status code " \o NumToString(status)]
AxiosNoResponse ==
    [isAxiosError |-> TRUE, hasResponse |-> FALSE, status |-> 0, data |-> Undefined,
     message |-> "Network Error"]
OtherFailure(raw) ==
    [isAxiosError |-> FALSE, hasResponse |-> FALSE, status |-> 0, data |-> Undefined,
     message |-> "", raw |-> raw]

\* error.response?.status
ResponseStatus(err) == IF err.hasResponse THEN Num(err.status) ELSE Undefined

\* the message handleAxiosError passes on
AxiosMessage(err) ==
    LET data == err.data
    IN  IF data.t = "string" THEN data
        ELSE IF data.t = "object" /\ data \in ObjectsWithMessage
        THEN MessageProperty(data)
        ELSE Str(err.message)

\* handleAxiosError(error)
handleAxiosError(err, env, now) ==
    LET status == OrElse(ResponseStatus(err), Num(0)).n
    IN  handle(Typed(createFromHttpStatus(status, AxiosMessage(err), err.data, now)),
               env, now)

\* the catch block's processedError
ProcessedError(err, env, now) ==
    IF err.isAxiosError THEN handleAxiosError(err, env, now)
    ELSE handle(err.raw, env, now)

\* `(err as AxiosError)?.response?.status || 500`
FailureStatus(err) == OrElse(ResponseStatus(err), Num(500)).n

\* (a slip: the register is called whatever showGlobalError is)
CallsRegister_Always(showGlobalError) == TRUE

\* `if (showGlobalError)`
CallsRegister(showGlobalError) == showGlobalError

\* `finally { setLoading(false) }`
LoadingAfterSettle(others) == FALSE

\* the arguments of execute: showGlobalError, true when it is not passed
ShowGlobalErrorArgs == {"absent", "true", "false"}
showGlobalErrorOf(arg) == arg # "false"

\* execute(url, options, showGlobalError) up to the await of the request
ExecuteStart(arg) ==
    /\ apiCount < MaxExecutes
    /\ apiCount' = apiCount + 1
    /\ apiLoading' = TRUE
    /\ apiError' = NullRef
    /\ inflight' = {[c EXCEPT !.overlapped = TRUE] : c \in inflight}
                      \cup {[n |-> apiCount + 1, showGlobalError |-> showGlobalErrorOf(arg),
                             overlapped |-> inflight # {}]}
    /\ appOp' = "execute"
    /\ UNCHANGED <<created, apiData, apiLast, appSink, reportingEnabled>>
    /\ UNCHANGED storeVars

\* the responses of the server
Responses ==
    { [data |-> Obj("{data: 'created'}"), status |-> 201] }

\* the request of call c is answered: the try block after the await, and finally
ExecuteResolve(c, response) ==
    /\ c \in inflight
    /\ apiData' = response.data
    /\ apiLast' = [settled |-> "resolved", overlapped |-> c.overlapped,
                   showGlobalError |-> c.showGlobalError,
                   value |-> [data |-> response.data, status |-> response.status]]
    /\ inflight' = inflight \ {c}
    /\ apiLoading' = LoadingAfterSettle(inflight \ {c})
    /\ appOp' = "resolve"
    /\ UNCHANGED <<created, apiError, apiCount, appSink, reportingEnabled>>
    /\ UNCHANGED storeVars

\* the failures of the request
RequestFailures ==
    { AxiosFailure(404, Str("No such user")),
      AxiosFailure(400, Obj("{message: 'Email taken'}")),
      AxiosNoResponse,
      OtherFailure(PlainError("Invalid URL")) }

\* the catch block's processedError for the failures above, tabulated
ProcessedFailures ==
    [err \in RequestFailures, env \in Envs, now \in Times
        |-> ProcessedError(err, env, now)]

\* the request of call c fails with err: the catch block, and finally
ExecuteReject(c, err) ==
    LET processedError == ProcessedFailures[err, nodeEnv, clock]
    IN  /\ c \in inflight
        /\ Create(Normalized(processedError))
        /\ apiError' = nextId
        /\ IF CallsRegister(c.showGlobalError) THEN setError(nextId) ELSE NoRegisterCall
        /\ appSink' = IF isFeatureEnabled /\ shouldReport(processedError, nodeEnv)
                      THEN Append(appSink, [error |-> nextId, type |-> "useApi"])
                      ELSE appSink
        /\ apiLast' = [settled |-> "resolved", overlapped |-> c.overlapped,
                       showGlobalError |-> c.showGlobalError,
                       value |-> [error |-> nextId, status |-> FailureStatus(err)],
                       err |-> err]
        /\ inflight' = inflight \ {c}
        /\ apiLoading' = LoadingAfterSettle(inflight \ {c})
        /\ appOp' = "reject"
        /\ UNCHANGED <<apiData, apiCount, reportingEnabled>>

\* reset()
ApiReset ==
    /\ apiData' = Null
    /\ apiError' = NullRef
    /\ apiLoading' = FALSE
    /\ appOp' = "reset"
    /\ UNCHANGED <<created, inflight, apiCount, apiLast, appSink, reportingEnabled>>
    /\ UNCHANGED storeVars

\* nothing was called yet: the flag is enabled in the flag table
AppIdle ==
    /\ created = <<>>
    /\ apiLoading = FALSE
    /\ apiData = Null
    /\ apiError = NullRef
    /\ inflight = {}
    /\ apiCount = 0
    /\ apiLast = [settled |-> "none"]
    /\ appSink = <<>>
    /\ reportingEnabled = TRUE
    /\ appOp = "load"

-----------------------------------------------------------------------------
(* withErrorHandling *)

\* the reporting predicates a caller passes as options.shouldReport
ShouldReportOption(name, error) ==
    IF name = "never" THEN FALSE ELSE error.category = "server"

\* the transformations a caller passes as options.transformError
TransformErrorOption(name, error) ==
    IF name = "setCode0" THEN [error EXCEPT !.code = Num(0)]
    ELSE [error EXCEPT !.message = "Something went wrong"]

ContextChoices == {EmptyObject, [context |-> "UserService.getUser"]}
ShouldReportChoices == {EmptyObject, [shouldReport |-> "never"], [shouldReport |-> "onlyServer"]}
TransformErrorChoices ==
    {EmptyObject, [transformError |-> "setCode0"], [transformError |-> "friendly"]}
WrapperOptions ==
    { c @@ r @@ t : c \in ContextChoices, r \in ShouldReportChoices,
                    t \in TransformErrorChoices }

\* what fn resolves with and what it raises: the demo's errors among them
WrappedValues == {Value(Obj("{id, name: 'Test User'}")), Value(Undefined)}
WrappedRaws ==
    { Typed(NotFoundError(Str("User not found"), Undefined, Undefined, Undefined, 0)),
      Typed(ServerError(Str("Database connection error"), Undefined, Undefined, Undefined,
                        0)),
      Typed(ServerError(Str("Gateway"), Num(502), Undefined, Undefined, 0)),
      Typed(NetworkError(Str("offline"), Num(0), Undefined, Undefined, 0)),
      Typed(ValidationError(Str("Invalid"), <<>>, Str("E42"), Undefined, Undefined, 0)),
      PlainError("boom"),
      Value(Str("failed")) }

\* withErrorHandling(fn, options): nothing is called yet
WrapperInit ==
    /\ wOptions \in WrapperOptions
    /\ wPc = "idle"
    /\ wOutcome = [ok |-> TRUE, out |-> Value(Undefined)]
    /\ wResult = [settled |-> "pending"]
    /\ wSink = <<>>

WrapperIdle ==
    /\ wOptions = EmptyObject
    /\ wPc = "idle"
    /\ wOutcome = [ok |-> TRUE, out |-> Value(Undefined)]
    /\ wResult = [settled |-> "pending"]
    /\ wSink = <<>>

\* the returned function is called: `await fn(...args)`
WrappedCall ==
    /\ wPc = "idle"
    /\ wPc' = "awaiting"
    /\ UNCHANGED <<wOptions, wOutcome, wResult, wSink>>

\* fn resolves with v
WrappedResolve(v) ==
    /\ wPc = "awaiting"
    /\ wPc' = "settled"
    /\ wOutcome' = [ok |-> TRUE, out |-> v]
    /\ wResult' = [settled |-> "resolved", value |-> [data |-> v, status |-> Num(200)]]
    /\ UNCHANGED <<wOptions, wSink>>

\* the processedError of the catch block, after options.transformError
Transformed(o, error) ==
    IF "transformError" \in DOMAIN o THEN TransformErrorOption(o.transformError, error)
    ELSE error

\* the catch block's shouldReport
ReportingPredicate(o, error, env) ==
    IF "shouldReport" \in DOMAIN o THEN ShouldReportOption(o.shouldReport, error)
    ELSE shouldReport(error, env)

\* (a slip: the flag is not consulted)
SinkCalled_NoFlag(enabled, report) == report

\* `isFeatureEnabled('ENABLE_ERROR_REPORTING') && shouldReport`
SinkCalled(enabled, report) == enabled /\ report

\* (a slip: no default)
StatusOf_NoDefault(error) == error.code

\* `processedError.code as number || 500`
StatusOf(error) == OrElse(error.code, Num(500))

\* fn raises x: the catch block
WrappedReject(x) ==
    LET processedError == Transformed(wOptions, handle(x, nodeEnv, clock))
        report == ReportingPredicate(wOptions, processedError, nodeEnv)
    IN  /\ wPc = "awaiting"
        /\ wPc' = "settled"
        /\ wOutcome' = [ok |-> FALSE, out |-> x]
        /\ wSink' = IF SinkCalled(isFeatureEnabled, report)
                    THEN Append(wSink, [error |-> processedError,
                                        context |-> Opt(wOptions, "context", "undefined")])
                    ELSE wSink
        /\ wResult' = [settled |-> "resolved",
                       value |-> [error |-> processedError,
                                  status |-> StatusOf(processedError)]]
        /\ UNCHANGED wOptions

\* the page toggles the flag
ToggleReporting(enabled) ==
    /\ updateFeatureFlag(enabled)
    /\ UNCHANGED <<created, apiLoading, apiData, apiError, inflight, apiCount, apiLast,
                   appSink, appOp>>

-----------------------------------------------------------------------------
(* ToastContainer *)

\* what useErrorStore() gives the component when it renders
StoreSnapshot == [currentError |-> currentError, isErrorVisible |-> isErrorVisible]

\* `hideError()` in the effect
ToastHides == hideError

\* the register changed: the component renders again with the register's state
\* and, a dependency having changed, its effect runs with the values rendered
ToastUpdate ==
    /\ StoreSnapshot # tRendered
    /\ tRendered' = StoreSnapshot
    /\ IF IsSet(currentError) /\ isErrorVisible
       THEN /\ toasts' = Append(toasts, currentError)
            /\ ToastHides
       ELSE /\ UNCHANGED toasts
            /\ UNCHANGED storeVars

\* a caller sets a new error while the container is mounted
ToastSetError(error) ==
    /\ nextId <= MaxToastErrors
    /\ error = NewError(nextId)
    /\ setError(error)
    /\ UNCHANGED toastVars

\* the container is mounted on an empty register: its first effect did nothing
ToastIdle ==
    /\ tRendered = [currentError |-> NullRef, isErrorVisible |-> FALSE]
    /\ toasts = <<>>

-----------------------------------------------------------------------------
(* Specifications: each component alone, the others at rest *)

RetryAtRest == UNCHANGED retryVars
StoreAtRest == UNCHANGED storeVars
BoundaryAtRest == UNCHANGED boundaryVars
ManagerAtRest == UNCHANGED managerVars
AppAtRest == UNCHANGED appVars
WrapperAtRest == UNCHANGED wrapperVars
ToastAtRest == UNCHANGED toastVars

RetryIdle ==
    /\ rOptions = EmptyObject
    /\ rPc = "invoke"
    /\ attempts = 0
    /\ rResult = NoResult
    /\ calls = <<>>
    /\ srCalls = <<>>
    /\ delays = <<>>

BoundaryIdle ==
    /\ bState = StableState
    /\ bProps = [fallback |-> "none", hasOnError |-> FALSE,
                 hasResetKeys |-> FALSE, resetKeys |-> <<>>]
    /\ bRendered = Render(StableState, bProps)
    /\ caught = <<>>
    /\ bEvent = "mount"
    /\ sinkLog = <<>>
    /\ onErrorLog = <<>>
    /\ clock = 0
    /\ nodeEnv = "development"

ManagerIdle ==
    /\ mCall = [op |-> "none"]
    /\ mResult = Pending

OthersAtRestForRetry == StoreAtRest /\ BoundaryAtRest /\ ManagerAtRest /\ AppAtRest /\ WrapperAtRest /\ ToastAtRest
OthersAtRestForStore == RetryAtRest /\ BoundaryAtRest /\ ManagerAtRest /\ AppAtRest /\ WrapperAtRest /\ ToastAtRest
OthersAtRestForBoundary == RetryAtRest /\ StoreAtRest /\ ManagerAtRest /\ AppAtRest /\ WrapperAtRest /\ ToastAtRest
OthersAtRestForManager == RetryAtRest /\ StoreAtRest /\ BoundaryAtRest /\ AppAtRest /\ WrapperAtRest /\ ToastAtRest

InitRetry == RetryInit /\ StoreInit /\ BoundaryIdle /\ ManagerIdle /\ AppIdle /\ WrapperIdle /\ ToastIdle
NextRetry ==
    \/ (\E v \in OpValues : RetryInvokeOk(v)) /\ OthersAtRestForRetry
    \/ (\E e \in OpErrors : RetryInvokeThrow(e)) /\ OthersAtRestForRetry
    \/ (\E e \in OpErrors : RetryInvokeRetry(e)) /\ OthersAtRestForRetry
    \/ RetryDelayElapsed /\ OthersAtRestForRetry
SpecRetry == InitRetry /\ [][NextRetry]_vars

\* every invocation of the operation settles and every timer fires
SpecRetryFair == SpecRetry /\ WF_vars(NextRetry)

InitStore == RetryIdle /\ StoreInit /\ BoundaryIdle /\ ManagerIdle /\ AppIdle /\ WrapperIdle /\ ToastIdle
NextStore ==
    \/ (\E error \in ErrorArgs \cup {NullRef} : setError(error))
            /\ OthersAtRestForStore
    \/ clearError /\ OthersAtRestForStore
    \/ showError /\ OthersAtRestForStore
    \/ hideError /\ OthersAtRestForStore
    \/ (\E error \in ErrorArgs : addToHistory(error)) /\ OthersAtRestForStore
    \/ clearHistory /\ OthersAtRestForStore
SpecStore == InitStore /\ [][NextStore]_vars

InitBoundary == RetryIdle /\ StoreInit /\ BoundaryInit /\ ManagerIdle /\ AppIdle /\ WrapperIdle /\ ToastIdle
NextBoundary ==
    \/ (\E raw \in BoundaryRaws : Raise(raw)) /\ OthersAtRestForBoundary
    \/ (\E props \in NextProps, o1 \in RenderOutcomes :
          \E o2 \in SecondOutcomes(props, o1) : Update(props, o1, o2))
            /\ OthersAtRestForBoundary
    \/ (\E o \in RenderOutcomes : Reset(o)) /\ OthersAtRestForBoundary
    \/ Tick /\ OthersAtRestForBoundary
SpecBoundary == InitBoundary /\ [][NextBoundary]_vars

InitManager == RetryIdle /\ StoreInit /\ BoundaryIdle /\ ManagerInit /\ AppIdle /\ WrapperIdle /\ ToastIdle
NextManager ==
    \/ Handle /\ OthersAtRestForManager
    \/ CreateFromHttpStatus /\ OthersAtRestForManager
    \/ (\E env \in Envs : HandleCreated(env)) /\ OthersAtRestForManager
    \/ ShouldReport /\ OthersAtRestForManager
SpecManager == InitManager /\ [][NextManager]_vars

\* the register's callers and one useApi hook
OthersAtRestForApp == RetryAtRest /\ BoundaryAtRest /\ ManagerAtRest /\ WrapperAtRest /\ ToastAtRest
InitApp == RetryIdle /\ StoreInit /\ BoundaryIdle /\ ManagerIdle /\ AppIdle /\ WrapperIdle /\ ToastIdle
NextApp ==
    \/ (\E w \in WindowErrors : WindowOnError(w.message, w.error)) /\ OthersAtRestForApp
    \/ (\E reason \in RejectionReasons : OnUnhandledRejection(reason))
            /\ OthersAtRestForApp
    \/ (\E errorType \in ErrorTypes : TriggerError(errorType)) /\ OthersAtRestForApp
    \/ SimulateRetry /\ OthersAtRestForApp
    \/ (\E arg \in ShowGlobalErrorArgs : ExecuteStart(arg)) /\ OthersAtRestForApp
    \/ (\E c \in inflight, response \in Responses : ExecuteResolve(c, response))
            /\ OthersAtRestForApp
    \/ (\E c \in inflight, err \in RequestFailures : ExecuteReject(c, err))
            /\ OthersAtRestForApp
    \/ ApiReset /\ OthersAtRestForApp
SpecApp == InitApp /\ [][NextApp]_vars

\* one call of a wrapped function, and the flag of the page
OthersAtRestForWrapper == RetryAtRest /\ StoreAtRest /\ BoundaryAtRest /\ ManagerAtRest /\ ToastAtRest
InitWrapper == RetryIdle /\ StoreInit /\ BoundaryIdle /\ ManagerIdle /\ AppIdle /\ WrapperInit /\ ToastIdle
NextWrapper ==
    \/ WrappedCall /\ AppAtRest /\ OthersAtRestForWrapper
    \/ (\E v \in WrappedValues : WrappedResolve(v)) /\ AppAtRest /\ OthersAtRestForWrapper
    \/ (\E x \in WrappedRaws : WrappedReject(x)) /\ AppAtRest /\ OthersAtRestForWrapper
    \/ (\E enabled \in BOOLEAN : ToggleReporting(enabled))
            /\ WrapperAtRest /\ OthersAtRestForWrapper
SpecWrapper == InitWrapper /\ [][NextWrapper]_vars

\* the toast container and the callers of setError
OthersAtRestForToast ==
    RetryAtRest /\ BoundaryAtRest /\ ManagerAtRest /\ AppAtRest /\ WrapperAtRest
InitToast ==
    RetryIdle /\ StoreInit /\ BoundaryIdle /\ ManagerIdle /\ AppIdle /\ WrapperIdle /\ ToastIdle
NextToast ==
    \/ (\E error \in 1..MaxToastErrors : ToastSetError(error)) /\ OthersAtRestForToast
    \/ ToastUpdate /\ OthersAtRestForToast
SpecToast == InitToast /\ [][NextToast]_vars

\* React runs every render it scheduled, and the effects of every render
SpecToastFair == SpecToast /\ WF_vars(ToastUpdate /\ OthersAtRestForToast)

-----------------------------------------------------------------------------
(* Properties of retryWithBackoff, checked under SpecRetry *)

Failures == {i \in 1..Len(calls) : ~calls[i].ok}
ShouldRetryAlwaysTrue == \A j \in 1..Len(srCalls) : srCalls[j].ret

\* C1: a successful invocation is the last one: the call resolves with its value,
\* the k failures before it were each followed by one shouldRetry call and one
\* delay and nothing follows it; and while shouldRetry answers true the call does
\* not reject after fewer than maxRetries failures.
C1_ResolvesWithFirstSuccess ==
    /\ \A i \in 1..Len(calls) :
          calls[i].ok =>
             /\ i = Len(calls)
             /\ rPc = "resolved"
             /\ rResult = [kind |-> "value", out |-> calls[i].out]
             /\ Failures = 1..(i - 1)
             /\ attempts = i - 1
             /\ Len(srCalls) = i - 1
             /\ Len(delays) = i - 1
    /\ (rPc = "rejected" /\ ShouldRetryAlwaysTrue) => Len(calls) >= maxRetries(rOptions)
    /\ rPc = "resolved" => calls[Len(calls)].ok

\* maxRetries = 5, two failures and then a success: three invocations
C1_Witness ==
    /\ maxRetries(rOptions) = 5
    /\ "shouldRetry" \notin DOMAIN rOptions
    /\ rPc = "resolved"
    /\ Len(calls) = 3
    /\ ~calls[1].ok /\ ~calls[2].ok
    /\ rResult.out = calls[3].out

Max(a, b) == IF a >= b THEN a ELSE b

\* C2 as stated: when every invocation fails and shouldRetry answers true, the
\* operation is invoked exactly maxRetries times and the call rejects with the
\* error of the last invocation.
C2_Original ==
    (rPc = "rejected" /\ ShouldRetryAlwaysTrue) =>
        /\ Len(calls) = maxRetries(rOptions)
        /\ rResult = [kind |-> "error", out |-> calls[Len(calls)].out]

\* C2 amended: ... is invoked exactly max(1, maxRetries) times, and the call
\* rejects with the error of the last invocation, as raised.
C2_RejectsWithLastError ==
    (rPc = "rejected" /\ ShouldRetryAlwaysTrue) =>
        /\ Len(calls) = Max(1, maxRetries(rOptions))
        /\ Failures = 1..Len(calls)
        /\ rResult = [kind |-> "error", out |-> calls[Len(calls)].out]

\* the defaults: three invocations, the third error differs from the first
C2_Witness ==
    /\ rOptions = EmptyObject
    /\ rPc = "rejected"
    /\ Len(calls) = 3
    /\ calls[3].out # calls[1].out
    /\ rResult.out = calls[3].out

\* C3: the j-th call of shouldRetry gets the error of the j-th invocation and j,
\* with j < maxRetries (it is not called on the failure that reaches maxRetries);
\* when it answers false the call rejects with that error, no delay is started
\* and the operation is not invoked again.
C3_ShouldRetryDeclines ==
    /\ \A j \in 1..Len(srCalls) :
          /\ j <= Len(calls)
          /\ ~calls[j].ok
          /\ srCalls[j].err = calls[j].out
          /\ srCalls[j].attempts = j
          /\ j < maxRetries(rOptions)
          /\ ~srCalls[j].ret =>
                /\ j = Len(srCalls)
                /\ j = Len(calls)
                /\ rPc = "rejected"
                /\ rResult = [kind |-> "error", out |-> calls[j].out]
                /\ Len(delays) = j - 1
    /\ Len(srCalls) = Cardinality({i \in Failures : i < maxRetries(rOptions)})

\* shouldRetry declined the second failure of a call with maxRetries = 5
C3_Witness ==
    /\ maxRetries(rOptions) = 5
    /\ Len(srCalls) = 2
    /\ srCalls[1].ret /\ ~srCalls[2].ret
    /\ rPc = "rejected"
    /\ Len(delays) = 1

\* the wait the claim gives for the n-th retry
ClaimedWait(o, n) ==
    LET first == Opt(o, "initialDelayMs", 1000)
        factor == Opt(o, "backoffFactor", 2)
        cap == Opt(o, "maxDelayMs", 10000)
        grown == IF n = 1 THEN first ELSE first * (factor ^ (n - 1))
    IN  IF grown <= cap THEN grown ELSE cap

\* C4: the n-th wait is min(initialDelayMs * backoffFactor^(n-1), maxDelayMs);
\* with the defaults the waits are 1000, 2000, 4000, 8000, 10000, 10000, ...;
\* no wait exceeds maxDelayMs; for backoffFactor >= 1 the waits never decrease.
C4_BackoffDelays ==
    /\ \A n \in 1..Len(delays) :
          /\ delays[n] = ClaimedWait(rOptions, n)
          /\ delays[n] <= maxDelayMs(rOptions)
          /\ (n > 1 /\ backoffFactor(rOptions) >= 1) => delays[n - 1] <= delays[n]
    /\ (DOMAIN rOptions \subseteq {"maxRetries", "shouldRetry"}) =>
          \A n \in 1..Len(delays) :
             delays[n] = <<1000, 2000, 4000, 8000>>[Min(n, 4)] \/ (n > 4 /\ delays[n] = 10000)
    /\ Len(delays) = Len(srCalls) - (IF rPc = "rejected" /\ srCalls # <<>>
                                        /\ ~srCalls[Len(srCalls)].ret THEN 1 ELSE 0)

\* six waits with the default delays: the fifth and the sixth are capped
C4_Witness ==
    /\ DOMAIN rOptions = {"maxRetries"}
    /\ Len(delays) = 6
    /\ delays[4] = 8000 /\ delays[5] = 10000 /\ delays[6] = 10000

-----------------------------------------------------------------------------
(* Properties of the global error register, checked under SpecStore *)

\* C5: errorHistory never holds more than 10 records.
C5_HistoryAtMostTen == Len(errorHistory) <= 10

\* an eleventh record was pushed and the history holds ten
C5_Witness == Len(pushed) = 11 /\ Len(errorHistory) = 10

\* the k most recent of the records of log, newest first
NewestFirst(log, k) == [i \in 1..k |-> log[Len(log) + 1 - i]]

\* C6: errorHistory is the newest-first sequence of the min(n, 10) most recent
\* of the n records pushed since the last clearHistory.
C6_HistoryIsRecentPushes ==
    errorHistory = NewestFirst(pushed, IF Len(pushed) <= 10 THEN Len(pushed) ELSE 10)

\* eleven distinct errors were set: the history runs from the 11th to the 2nd
C6_Witness ==
    /\ Len(pushed) = 11
    /\ \A i, j \in 1..11 : i # j => pushed[i] # pushed[j]
    /\ lastOp = "setError"
    /\ Len(errorHistory) = 10
    /\ errorHistory[1] = pushed[11]
    /\ errorHistory[10] = pushed[2]
    /\ \A i \in 1..10 : errorHistory[i] # pushed[1]

\* C7: setError(e) leaves currentError = e and isErrorVisible true iff e is not
\* null; a non-null e is put once at the front of the history, which is cut to
\* 10; a null e leaves the history as it was.  (pushed records the e passed.)
C7_SetError ==
    [][lastOp' = "setError" =>
          IF pushed' # pushed
          THEN /\ pushed' = Append(pushed, currentError')
               /\ IsSet(currentError')
               /\ isErrorVisible'
               /\ errorHistory'[1] = currentError'
               /\ Len(errorHistory') = (IF Len(errorHistory) < 10
                                        THEN Len(errorHistory) + 1 ELSE 10)
               /\ \A i \in 2..Len(errorHistory') : errorHistory'[i] = errorHistory[i - 1]
          ELSE /\ currentError' = NullRef
               /\ ~isErrorVisible'
               /\ errorHistory' = errorHistory]_vars

\* setError(null) was the last call, on a register with three records of history
C7_Witness ==
    /\ lastOp = "setError"
    /\ currentError = NullRef
    /\ ~isErrorVisible
    /\ Len(errorHistory) = 3

\* C8: clearError() leaves currentError = null and isErrorVisible = false, and
\* errorHistory as it was.
C8_ClearError ==
    [][lastOp' = "clearError" =>
          /\ currentError' = NullRef
          /\ ~isErrorVisible'
          /\ errorHistory' = errorHistory]_vars

\* clearError() was the last call, on a register with two records of history
C8_Witness ==
    /\ lastOp = "clearError"
    /\ currentError = NullRef
    /\ ~isErrorVisible
    /\ Len(errorHistory) = 2

\* C9: showError and hideError set isErrorVisible and nothing else, whatever
\* currentError is; addToHistory and clearHistory change errorHistory and
\* nothing else.
C9_SingleFieldOperations ==
    [][/\ lastOp' = "showError" =>
             isErrorVisible' /\ currentError' = currentError
                /\ errorHistory' = errorHistory
       /\ lastOp' = "hideError" =>
             ~isErrorVisible' /\ currentError' = currentError
                /\ errorHistory' = errorHistory
       /\ lastOp' = "addToHistory" =>
             /\ currentError' = currentError
             /\ isErrorVisible' = isErrorVisible
             /\ errorHistory' = Slice0(<<pushed'[Len(pushed')]>> \o errorHistory, 10)
       /\ lastOp' = "clearHistory" =>
             /\ currentError' = currentError
             /\ isErrorVisible' = isErrorVisible
             /\ errorHistory' = <<>>]_vars

\* showError() made a register with no current error visible
C9_Witness ==
    /\ lastOp = "showError"
    /\ currentError = NullRef
    /\ isErrorVisible

-----------------------------------------------------------------------------
(* Properties of the error boundary, checked under SpecBoundary *)

Failed == bState.hasError
LastCaught == caught[Len(caught)]

\* C10: a raise of the guarded region while the boundary is stable leaves it
\* failed, holding ErrorManager.handle of the raised value; a failed boundary
\* renders the fallback (a fallback function is called with the held error) and
\* not the guarded region, and a stable boundary renders the guarded region.
C10_StableToFailed ==
    /\ bEvent = "raise" => Failed
    /\ Failed =>
          /\ caught # <<>>
          /\ bState.error = handle(LastCaught.raw, nodeEnv, LastCaught.at)
          /\ bRendered.kind # "children"
          /\ bProps.fallback = "function" =>
                bRendered.kind = "fallback(error)" /\ bRendered.arg = bState.error
          /\ bProps.fallback = "node" => bRendered.kind = "fallback"
          /\ bProps.fallback = "none" =>
                /\ bRendered.kind = "default"
                /\ bRendered.text = (IF bState.error.message # "" THEN bState.error.message
                                     ELSE "An unexpected error occurred.")
    /\ ~Failed => bState.error = NoError /\ bRendered.kind = "children"

\* the guarded region raised an Error and the fallback function got its normalization
C10_Witness ==
    /\ bEvent = "raise"
    /\ Failed
    /\ LastCaught.raw = PlainError("Network request failed")
    /\ bProps.fallback = "function"
    /\ bRendered.kind = "fallback(error)"
    /\ bRendered.arg.category = "network"
    /\ bRendered.arg.severity = "high"

\* the step is a tick of the clock and no event of the boundary
Ticked ==
    /\ clock' # clock
    /\ UNCHANGED <<bState, bProps, bRendered, caught, bEvent, sinkLog, onErrorLog>>

\* the step is a call of reset()
ExplicitReset == bEvent' = "reset" /\ ~Ticked

\* the step is a render of the boundary by its parent
ParentUpdate == bEvent' = "update" /\ ~Ticked

\* the boundary after the step is as a reset leaves it: stable, holding no error
\* and rendering the guarded region if the region returned, and failed again with
\* the normalization of the new raise if the region raised
AsAfterReset ==
    IF caught' = caught
    THEN /\ bState' = [hasError |-> FALSE, error |-> NoError]
         /\ bRendered'.kind = "children"
         /\ sinkLog' = sinkLog /\ onErrorLog' = onErrorLog
    ELSE /\ caught' = Append(caught, caught'[Len(caught')])
         /\ bState'.hasError
         /\ bState'.error = handle(caught'[Len(caught')].raw, nodeEnv, caught'[Len(caught')].at)
         /\ bRendered'.kind # "children"

\* C11: reset() on a failed boundary leaves it stable with no held error and
\* the guarded region rendered; when the region raises again, in the render
\* the reset causes or in a later one, the raise is caught and the boundary is
\* failed with the normalization of the new raise.
C11_ExplicitReset ==
    [][/\ (bState.hasError /\ ExplicitReset) => AsAfterReset
       /\ (bEvent = "reset" /\ ~bState.hasError /\ bEvent' = "raise") =>
             /\ caught' = Append(caught, caught'[Len(caught')])
             /\ bState'.hasError
             /\ bState'.error
                   = handle(caught'[Len(caught')].raw, nodeEnv, caught'[Len(caught')].at)]_vars

\* reset() was called on a failed boundary and the region raised again: the
\* boundary holds the normalization of the second raise, not that of the first
C11_Witness ==
    /\ Len(caught) = 2
    /\ bEvent = "reset"
    /\ ~bProps.hasResetKeys
    /\ caught[1].raw = PlainError("Network request failed")
    /\ caught[2].raw = Value(Str(""))
    /\ bState.hasError
    /\ bState.error.category = "unknown"

\* both renders passed a list of watched keys and the lists differ
KeysDiffer == bProps.hasResetKeys /\ bProps'.hasResetKeys /\ bProps'.resetKeys # bProps.resetKeys

\* the boundary after the step is as one evaluation of the guarded region leaves
\* a stable boundary: stable as before if the region returned, and failed with
\* the normalization of the one raise if it raised
AsAfterOneRender ==
    IF caught' = caught
    THEN bState' = bState /\ bRendered'.kind = "children"
            /\ sinkLog' = sinkLog /\ onErrorLog' = onErrorLog
    ELSE /\ caught' = Append(caught, caught'[Len(caught')])
         /\ bState'.hasError
         /\ bState'.error = handle(caught'[Len(caught')].raw, nodeEnv, caught'[Len(caught')].at)

\* C12: an update of a failed boundary whose list of watched keys differs from
\* the previous list does what reset() does; an update with the same list leaves
\* the boundary failed, as it was; an update of a stable boundary does the same
\* whether the keys changed or not (the region is evaluated once, and a raise of
\* the region leaves the boundary failed), and since only the lists of two
\* consecutive renders are compared, a change seen while stable resets nothing later.
C12_WatchedKeys ==
    [][ParentUpdate =>
          /\ (bState.hasError /\ KeysDiffer) => AsAfterReset
          /\ (bState.hasError /\ ~KeysDiffer) =>
                /\ bState' = bState
                /\ caught' = caught
                /\ sinkLog' = sinkLog /\ onErrorLog' = onErrorLog
                /\ bRendered'.kind # "children"
          /\ ~bState.hasError => AsAfterOneRender]_vars

\* what getDerivedStateFromError made of a caught raise
HeldFor(c) == Handled[c.raw, nodeEnv, c.at]

\* what componentDidCatch may have made of it, in the same tick or the next
Processed(c) == {Handled[c.raw, nodeEnv, t] : t \in c.at..(c.at + 1)}

Agree(a, b) ==
    /\ a.message = b.message
    /\ a.category = b.category
    /\ a.severity = b.severity
    /\ a.code = b.code
    /\ a.retry = b.retry

\* the caught raises whose normalization shouldReport accepts
ReportedRaises == SelectSeq(caught, LAMBDA c : shouldReport(HeldFor(c), nodeEnv))

\* C13: the calls of the reporting sink are, in order, one for each caught raise
\* whose normalization e satisfies shouldReport(e), with e as argument; the calls
\* of onError are, in order, one for each caught raise when onError is supplied
\* (none otherwise); each e is the normalization of the raised value and agrees
\* in message, category, severity, code and retry with the error getDerivedStateFromError
\* gave the boundary to hold for that raise.
C13_EntrySideEffects ==
    /\ Len(sinkLog) = Len(ReportedRaises)
    /\ \A k \in 1..Len(sinkLog) :
          /\ sinkLog[k] \in Processed(ReportedRaises[k])
          /\ Agree(sinkLog[k], HeldFor(ReportedRaises[k]))
    /\ Len(onErrorLog) = (IF bProps.hasOnError THEN Len(caught) ELSE 0)
    /\ \A k \in 1..Len(onErrorLog) :
          /\ onErrorLog[k] \in Processed(caught[k])
          /\ Agree(onErrorLog[k], HeldFor(caught[k]))
    /\ (bState.hasError /\ bProps.hasOnError) =>
          Agree(onErrorLog[Len(onErrorLog)], bState.error)

\* two raises were caught in production, a validation error that is not reported
\* and an Error that is; onError saw both, and the Error was processed by
\* componentDidCatch a tick after getDerivedStateFromError
C13_Witness ==
    /\ nodeEnv = "production"
    /\ bProps.hasOnError
    /\ Len(caught) = 2
    /\ caught[1].raw.tag = "BaseError"
    /\ caught[2].raw = PlainError("Network request failed")
    /\ Len(onErrorLog) = 2
    /\ Len(sinkLog) = 1
    /\ sinkLog[1].category = "network"
    /\ bState.hasError
    /\ sinkLog[1].timestamp # bState.error.timestamp

\* C14: in a step from a failed boundary that is neither a call of reset() nor
\* an update whose list of watched keys differs from the previous one, the
\* guarded region is not evaluated: no raise is caught, the held error stays,
\* the sink and onError are not called and the fallback stays rendered.
C14_NoSelfTransition ==
    [][(bState.hasError /\ ~ExplicitReset /\ ~(ParentUpdate /\ KeysDiffer)) =>
          /\ caught' = caught
          /\ bState' = bState
          /\ sinkLog' = sinkLog
          /\ onErrorLog' = onErrorLog
          /\ bRendered'.kind # "children"]_vars

\* a failed boundary was rendered again by its parent, with no watched keys,
\* after its one raise: the raise stays reported once and observed once
C14_Witness ==
    /\ bEvent = "update"
    /\ bState.hasError
    /\ ~bProps.hasResetKeys
    /\ Len(caught) = 1
    /\ Len(sinkLog) = 1
    /\ Len(onErrorLog) = 1
    /\ clock > caught[1].at

-----------------------------------------------------------------------------
(* Properties of ErrorManager, checked under SpecManager *)

HandleReturned == mCall.op = "handle" /\ mResult # Pending
ErrorResponseFields ==
    {"message", "severity", "category", "code", "timestamp", "data", "retry", "stack"}
Severities == {"low", "medium", "high", "critical"}
Categories ==
    {"network", "validation", "authentication", "authorization", "server", "client", "unknown"}

\* C15: for every input (an instance of any typed error class, an Error with
\* any message, a string, null, undefined, a number, a boolean, an object)
\* handle returns an ErrorResponse whose message is a string, whose severity
\* and category are members of their enums and whose timestamp is set.
C15_HandleIsTotal ==
    HandleReturned =>
        /\ DOMAIN mResult = ErrorResponseFields
        /\ mResult.message \in STRING
        /\ mResult.severity \in Severities
        /\ mResult.category \in Categories
        /\ mResult.timestamp \in Times

\* handle(null) returned the record of an unknown error made at the time of the call
C15_Witness ==
    /\ HandleReturned
    /\ mCall.error = Value(Null)
    /\ mCall.now = 1
    /\ mResult.message = "An unknown error occurred"
    /\ mResult.severity = "medium"
    /\ mResult.category = "unknown"
    /\ mResult.timestamp = 1

\* C16: the message of every record handle returns is a non-empty string,
\* whatever the input: the empty string, an Error with an empty message, a
\* BaseError built with an empty message, a ValidationError whose first field
\* has no messages.
C16_MessageNeverEmpty ==
    HandleReturned => (mResult.message \in STRING /\ mResult.message # "")

TypedHandled == HandleReturned /\ mCall.error.tag = "BaseError"

\* C17: for an instance e of any typed error class, handle(e).message is
\* e.getUserMessage() and category, severity, code, timestamp, data and retry
\* are e's own; the classifier of plain Errors is not applied to e.message: a
\* NetworkError is network/high whatever its message says, with its own retry
\* (true by default).
C17_TypedPathWins ==
    TypedHandled =>
        LET e == mCall.error.e
        IN  /\ mResult.message = getUserMessage(e)
            /\ mResult.category = e.category
            /\ mResult.severity = e.severity
            /\ mResult.code = e.code
            /\ mResult.timestamp = e.timestamp
            /\ mResult.data = e.data
            /\ mResult.retry = e.retry
            /\ e.cls = "NetworkError" =>
                  /\ mResult.category = "network"
                  /\ mResult.severity = "high"
                  /\ mResult.message =
                        "There was a problem connecting to the server. Please check your internet connection and try again."

\* handle(new NetworkError('invalid login')) returned network/high with retry
\* true, the instance's timestamp and the fixed text of getUserMessage
C17_Witness ==
    /\ TypedHandled
    /\ mCall.error.e.cls = "NetworkError"
    /\ mCall.error.e.message = "invalid login"
    /\ mCall.error.e.timestamp = 0
    /\ mCall.now = 1
    /\ mResult.category = "network"
    /\ mResult.severity = "high"
    /\ mResult.retry = TRUE
    /\ mResult.timestamp = 0

PlainHandled == HandleReturned /\ mCall.error.tag = "Error"

\* what the rule of C18 gives for the messages of ErrorMessages: the first of
\* network|fetch|connection, timeout|timed out, auth|login|permission,
\* validate|invalid, server|500 that the message contains, letter case aside
ClaimedClass(message) ==
    CASE message \in {"Network request failed", "Failed to FETCH", "Connection reset",
                      "invalid server connection"} ->
            [category |-> "network", severity |-> "high", retry |-> TRUE]
      [] message \in {"Request Timeout", "operation timed out", "server timeout"} ->
            [category |-> "network", severity |-> "medium", retry |-> TRUE]
      [] message \in {"Unauthorized", "LOGIN required", "Permission denied",
                      "invalid login", "auth server"} ->
            [category |-> "authentication", severity |-> "high", retry |-> FALSE]
      [] message \in {"could not validate", "Invalid input", "Validate 500"} ->
            [category |-> "validation", severity |-> "low", retry |-> TRUE]
      [] message \in {"Internal Server Error", "HTTP 500"} ->
            [category |-> "server", severity |-> "high", retry |-> TRUE]
      [] message \in {"", "boom", "time out"} ->
            [category |-> "unknown", severity |-> "medium", retry |-> TRUE]

\* C18: for a plain Error, handle gives the category, severity and retry of
\* the first group of substrings its message contains, letter case aside
\* (network/high, network/medium, authentication/high with retry false,
\* validation/low, server/high, else unknown/medium; retry true but for
\* authentication), and the Error's message as message.
C18_PlainErrorClassifier ==
    PlainHandled =>
        LET claimed == ClaimedClass(mCall.error.e.message)
        IN  /\ mResult.category = claimed.category
            /\ mResult.severity = claimed.severity
            /\ mResult.retry = claimed.retry
            /\ mResult.retry = (mResult.category # "authentication")
            /\ mResult.message = mCall.error.e.message

\* handle(new Error('invalid server connection')) returned network/high: the
\* message matches three groups and the earliest wins
C18_Witness ==
    /\ PlainHandled
    /\ mCall.error.e.message = "invalid server connection"
    /\ mResult.category = "network"
    /\ mResult.severity = "high"
    /\ mResult.retry = TRUE

ValueHandled == HandleReturned /\ mCall.error.tag = "value"

\* C19: for a string s, handle gives message s, unknown/medium and retry true
\* (the message is not classified); for any other value that is not an Error
\* (null, undefined, a number, a boolean, an object) it gives the message
\* 'An unknown error occurred', unknown/medium, retry true and the value
\* itself as data.
C19_StringsAndOtherValues ==
    ValueHandled =>
        LET v == mCall.error.e
        IN  /\ mResult.category = "unknown"
            /\ mResult.severity = "medium"
            /\ mResult.retry = TRUE
            /\ mResult.timestamp = mCall.now
            /\ IF v.t = "string"
               THEN mResult.message = v.s
               ELSE mResult.message = "An unknown error occurred" /\ mResult.data = v

\* handle(42) returned the fixed message with 42 as data
C19_Witness ==
    /\ ValueHandled
    /\ mCall.error.e = Num(42)
    /\ mResult.message = "An unknown error occurred"
    /\ mResult.data = Num(42)
    /\ mResult.retry = TRUE

CreateReturned == mCall.op = "createFromHttpStatus" /\ mResult # Pending

\* the class, category, severity and retry C20 gives for a status
ClaimedVariant(status) ==
    CASE status = 400 -> <<"ValidationError", "validation", "medium", TRUE>>
      [] status = 401 -> <<"AuthenticationError", "authentication", "high", TRUE>>
      [] status = 403 -> <<"AuthorizationError", "authorization", "high", FALSE>>
      [] status = 404 -> <<"NotFoundError", "server", "medium", FALSE>>
      [] status = 429 -> <<"RateLimitError", "server", "medium", TRUE>>
      [] status >= 500 -> <<"ServerError", "server", "high", TRUE>>
      [] OTHER -> <<"BaseError", "unknown", "medium", FALSE>>

\* C20: createFromHttpStatus(status) returns an instance of the class of the
\* mapping (400 Validation, 401 Authentication, 403 Authorization, 404 NotFound,
\* 429 RateLimit, 500 and above Server, anything else the generic BaseError)
\* with that class's category, severity and default retry, code = status and
\* the data passed; the generic error is unknown/medium with retry false and
\* its message is 'HTTP Error ' followed by the status when none is passed.
C20_CreateFromHttpStatus ==
    CreateReturned =>
        LET claimed == ClaimedVariant(mCall.status)
        IN  /\ mResult.cls = claimed[1]
            /\ mResult.category = claimed[2]
            /\ mResult.severity = claimed[3]
            /\ mResult.retry = claimed[4]
            /\ mResult.code = Num(mCall.status)
            /\ mResult.data = mCall.data
            /\ mResult.timestamp = mCall.now
            /\ (mResult.cls = "BaseError" /\ mCall.message = Undefined) =>
                  /\ mResult.message = "HTTP Error " \o NumToString(mCall.status)
                  /\ mCall.status = 0 => mResult.message = "HTTP Error 0"
                  /\ mCall.status = 204 => mResult.message = "HTTP Error 204"
                  /\ mCall.status = 418 => mResult.message = "HTTP Error 418"
                  /\ mCall.status = 0 - 1 => mResult.message = "HTTP Error -1"
            /\ mCall.message = Str("Custom message") => mResult.message = "Custom message"
            /\ mResult.cls = "ValidationError" => mResult.fieldErrors = <<>>
            /\ mResult.cls = "RateLimitError" => mResult.retryAfter = Undefined

\* createFromHttpStatus(404) returned a NotFoundError with code 404 and retry false
C20_Witness ==
    /\ CreateReturned
    /\ mCall.status = 404
    /\ mCall.message = Undefined
    /\ mResult.cls = "NotFoundError"
    /\ mResult.code = Num(404)
    /\ mResult.retry = FALSE
    /\ mResult.message = "Not Found"

ShouldReportReturned == mCall.op = "shouldReport" /\ mResult # Pending

\* the decision C21 states
ClaimedReport(e, mode) ==
    IF mode = "production" /\ (e.category = "validation" \/ e.code = Num(404)) THEN FALSE
    ELSE IF e.severity \in {"high", "critical"} THEN TRUE
    ELSE IF e.severity = "medium" /\ e.category # "validation" THEN TRUE
    ELSE FALSE

\* C21: shouldReport(e) is false in production when e is a validation error
\* or has code 404, whatever the severity; otherwise true for high and
\* critical, true for medium unless the category is validation, and false for
\* low; the answer is a function of e and the mode.
C21_ShouldReportDecision ==
    ShouldReportReturned =>
        /\ mResult.returned = ClaimedReport(mCall.error, mCall.env)
        /\ mCall.error.severity = "low" => ~mResult.returned
        /\ (mCall.env = "production" /\ mCall.error.code = Num(404)) => ~mResult.returned
        /\ (mCall.env = "development" /\ mCall.error.severity = "critical") => mResult.returned

\* a critical error with code 404 is reported in development
C21_Witness ==
    /\ ShouldReportReturned
    /\ mCall.env = "development"
    /\ mCall.error.code = Num(404)
    /\ mCall.error.severity = "critical"
    /\ mCall.error.category = "validation"
    /\ mResult.returned

\* the user message of the four variants of C22, by class alone
FixedCopy(cls) ==
    CASE cls = "AuthenticationError" ->
            "Authentication failed. Please check your credentials and try again."
      [] cls = "AuthorizationError" -> "You do not have permission to access this resource."
      [] cls = "ServerError" ->
            "An unexpected server error occurred. Our team has been notified."
      [] cls = "NotFoundError" -> "The requested resource was not found."

\* C22: for an AuthenticationError, AuthorizationError, ServerError or
\* NotFoundError, getUserMessage() and handle(e).message are determined by the
\* class alone: instances that differ in constructor message, code or data (or
\* in anything else) give the same text.
C22_FixedUserMessage ==
    (TypedHandled /\ mCall.error.e.cls \in {"AuthenticationError", "AuthorizationError",
                                            "ServerError", "NotFoundError"}) =>
        /\ getUserMessage(mCall.error.e) = FixedCopy(mCall.error.e.cls)
        /\ mResult.message = FixedCopy(mCall.error.e.cls)

\* handle of a ServerError built with a custom message, a code and data
\* returned the fixed text
C22_Witness ==
    /\ TypedHandled
    /\ mCall.error.e.cls = "ServerError"
    /\ mCall.error.e.message = "Custom message"
    /\ mCall.error.e.code = Str("E42")
    /\ mCall.error.e.data = Obj("payload")
    /\ mResult.message = "An unexpected server error occurred. Our team has been notified."

ValidationHandled == TypedHandled /\ mCall.error.e.cls = "ValidationError"

\* C23 as stated: for a ValidationError, handle's message is the first message
\* of the first field when fieldErrors has a field, and the fixed copy when it
\* has none; it is never the constructor message.
C23_Original ==
    ValidationHandled =>
        LET e == mCall.error.e
        IN  IF Len(e.fieldErrors) > 0
            THEN /\ Len(e.fieldErrors[1].msgs) > 0
                 /\ mResult.message = e.fieldErrors[1].msgs[1]
            ELSE mResult.message = "Please review the form for errors and try again."

\* C23 amended: ... is the first message of the first field when that field
\* has a non-empty first message, the constructor message when fieldErrors has
\* a field but the first field has no messages or an empty first message, and
\* the fixed copy when fieldErrors has no field.
C23_ValidationMessage ==
    ValidationHandled =>
        LET e == mCall.error.e
        IN  IF Len(e.fieldErrors) = 0
            THEN mResult.message = "Please review the form for errors and try again."
            ELSE IF Len(e.fieldErrors[1].msgs) > 0 /\ e.fieldErrors[1].msgs[1] # ""
            THEN mResult.message = e.fieldErrors[1].msgs[1]
            ELSE mResult.message = e.message

\* handle of a ValidationError('Custom message', {name: [], email: [...]}):
\* the first field has no messages and the constructor message is returned
C23_Witness ==
    /\ ValidationHandled
    /\ mCall.error.e.message = "Custom message"
    /\ Len(mCall.error.e.fieldErrors) = 2
    /\ mCall.error.e.fieldErrors[1].msgs = <<>>
    /\ mResult.message = "Custom message"

-----------------------------------------------------------------------------
(* More properties of the error boundary, checked under SpecBoundary *)

\* C27: in every state of the boundary, hasError is true exactly when the
\* held error is not null.
C27_FlagIffError ==
    /\ bState.hasError \in BOOLEAN
    /\ bState.hasError <=> (bState.error # NoError)

\* a boundary that failed, was reset by a change of its watched keys and is
\* stable again: the flag and the error are both cleared
C27_Witness ==
    /\ bEvent = "update"
    /\ Len(caught) = 1
    /\ bProps.hasResetKeys
    /\ ~bState.hasError
    /\ bState.error = NoError
    /\ bRendered.kind = "children"

-----------------------------------------------------------------------------
(* Termination of retryWithBackoff, checked under SpecRetryFair *)

Settled == rPc \in {"resolved", "rejected"}

\* C28: when every invocation settles and every delay elapses the call
\* settles; the operation is never invoked more than max(1, maxRetries) times,
\* and a settled call has invoked it at least once and has waited once less
\* than it invoked it.
C28_AlwaysSettles ==
    /\ [](/\ Len(calls) <= Max(1, maxRetries(rOptions))
          /\ Settled => (Len(calls) >= 1 /\ Len(delays) = Len(calls) - 1))
    /\ <>Settled

\* a call with maxRetries = 0 and an arbitrary shouldRetry rejected after one
\* invocation and no delay
C28_Witness ==
    /\ maxRetries(rOptions) = 0
    /\ "shouldRetry" \in DOMAIN rOptions
    /\ rPc = "rejected"
    /\ Len(calls) = 1
    /\ delays = <<>>

-----------------------------------------------------------------------------
(* Properties of the callers of the register, checked under SpecApp *)

\* the reference ids the register holds
RegisterRefs ==
    (IF IsSet(currentError) THEN {currentError} ELSE {})
        \cup {errorHistory[i] : i \in 1..Len(errorHistory)}

\* C24: every value in the register was normalized first: currentError and
\* every history entry refer to records that ErrorManager.handle returned,
\* never to a raw Error or typed-error object.
C24_RegisterHoldsNormalized ==
    \A id \in RegisterRefs : created[id].kind = "ErrorResponse"

\* an execute call settles in this step
Settles == Cardinality(inflight') < Cardinality(inflight)

\* the record the failure err is normalized to, tabulated
ClaimedRecords ==
    [err \in RequestFailures, env \in Envs, now \in Times |->
        IF err.isAxiosError /\ err.hasResponse
        THEN handle(Typed(createFromHttpStatus(err.status, AxiosMessage(err), err.data,
                                               now)), env, now)
        ELSE IF err.isAxiosError
        THEN handle(Typed(createFromHttpStatus(0, Str(err.message), Undefined, now)),
                    env, now)
        ELSE handle(err.raw, env, now)]
ClaimedRecord(err) == ClaimedRecords[err, nodeEnv, clock]

RegisterUntouched == UNCHANGED <<currentError, errorHistory, isErrorVisible, pushed>>

C29_LoadingTracksInFlight == apiLoading <=> (inflight # {})

-----------------------------------------------------------------------------
(* Properties of withErrorHandling, checked under SpecWrapper *)

\* fn settles in this step
FnSettles == wPc = "awaiting" /\ wPc' = "settled"

\* the error the claim names: handle(x), after transformError when supplied
ClaimedError(x) ==
    LET handled == handle(x, nodeEnv, clock)
    IN  IF "transformError" \in DOMAIN wOptions
        THEN TransformErrorOption(wOptions.transformError, handled)
        ELSE handled

\* the reporting predicate the claim names
ClaimedPredicate(error) ==
    IF "shouldReport" \in DOMAIN wOptions
    THEN ShouldReportOption(wOptions.shouldReport, error)
    ELSE shouldReport(error, nodeEnv)

\* C25: the wrapped function never rejects because fn failed. When fn resolves
\* with v it resolves to {data: v, status: 200} and the sink is not called; when
\* fn raises x it resolves to {error, status} where error is handle(x) after
\* transformError, status is the error's code when that is a number other than
\* 0 and 500 when the code is absent or 0, and the sink is called exactly when
\* the flag is enabled at that moment and the reporting predicate is true.
C25_WrapperContract ==
    [][FnSettles =>
        /\ wResult'.settled = "resolved"
        /\ IF wOutcome'.ok
           THEN /\ wResult'.value = [data |-> wOutcome'.out, status |-> Num(200)]
                /\ wSink' = wSink
           ELSE LET error == ClaimedError(wOutcome'.out)
                    status == wResult'.value.status
                IN  /\ DOMAIN wResult'.value = {"error", "status"}
                    /\ wResult'.value.error = error
                    /\ (error.code.t = "number" /\ error.code.n # 0) => status = error.code
                    /\ error.code \in {Undefined, Num(0)} => status = Num(500)
                    /\ IF reportingEnabled /\ ClaimedPredicate(error)
                       THEN wSink' = Append(wSink, [error |-> error,
                                context |-> Opt(wOptions, "context", "undefined")])
                       ELSE wSink' = wSink]_vars

\* the flag was switched off while fn was pending and fn then raised a server
\* error without a code: the call resolved with status 500 and nothing was sent
\* to the sink although the default predicate is true for the error
C25_Witness ==
    /\ wPc = "settled"
    /\ ~wOutcome.ok
    /\ ~reportingEnabled
    /\ "shouldReport" \notin DOMAIN wOptions
    /\ wResult.value.error.category = "server"
    /\ wResult.value.error.code = Undefined
    /\ wResult.value.status = Num(500)
    /\ shouldReport(wResult.value.error, nodeEnv)
    /\ wSink = <<>>

-----------------------------------------------------------------------------
(* Properties of the toast container, checked under SpecToastFair *)

\* setError(e) was called
WasSet(e) == \E i \in 1..Len(pushed) : pushed[i] = e

\* a toast showing e was the last one shown and the register is hidden, not cleared
ToastedAndHidden(e) ==
    /\ Len(toasts) > 0
    /\ toasts[Len(toasts)] = e
    /\ ~isErrorVisible
    /\ currentError = e

\* C30: every setError(e) with a non-null e is eventually followed by a toast
\* showing e and a register state with isErrorVisible = false and currentError
\* still e, also when several setError calls precede the effect.
C30_EverySetErrorToasted ==
    \A e \in 1..MaxToastErrors : [](WasSet(e) => <>ToastedAndHidden(e))

====
